---- MODULE Spec2Model ----
(***************************************************************************)
(* Model of the OSM Cycling Quality Index processing script               *)
(* (cycling_quality_index.py): way type classification, attribute         *)
(* resolution and index scoring of the features of a layer.               *)
(*                                                                         *)
(* Tag values are strings, an absent tag is NULL.  Numbers are exact      *)
(* rationals <<n, d>> with d > 0 in lowest terms, a null number is <<>>;  *)
(* where the code rounds a float, the float is computed bit by bit.       *)
(***************************************************************************)
EXTENDS Integers, Sequences, FiniteSets, TLC

\* ------------------------------------------------------------------ values

NULL == "NULL"
NULLNUM == <<>>
UNBOUND == <<"unbound">>

Abs(x) == IF x < 0 THEN -x ELSE x

RECURSIVE GCD(_, _)
GCD(a, b) == IF b = 0 THEN a ELSE GCD(b, a % b)

\* the rational n/d in lowest terms with a positive denominator
Rat(n, d) ==
    LET s == IF d < 0 THEN -1 ELSE 1
        g == GCD(Abs(n), Abs(d))
    IN  <<(s * n) \div g, (s * d) \div g>>

Num(n) == <<n, 1>>
RAdd(a, b) == Rat(a[1] * b[2] + b[1] * a[2], a[2] * b[2])
RSub(a, b) == Rat(a[1] * b[2] - b[1] * a[2], a[2] * b[2])
RMul(a, b) ==
    LET g1 == GCD(Abs(a[1]), b[2])
        g2 == GCD(Abs(b[1]), a[2])
    IN  Rat((a[1] \div g1) * (b[1] \div g2), (a[2] \div g2) * (b[2] \div g1))
RDiv(a, b) == RMul(a, IF b[1] < 0 THEN <<-b[2], -b[1]>> ELSE <<b[2], b[1]>>)
RLt(a, b) == a[1] * b[2] < b[1] * a[2]
RLe(a, b) == a[1] * b[2] <= b[1] * a[2]
RMax(a, b) == IF RLt(a, b) THEN b ELSE a
RMin(a, b) == IF RLt(b, a) THEN b ELSE a
RAbs(a) == <<Abs(a[1]), a[2]>>

\* Python truthiness of a nullable number / of a nullable string. A number
\* <<n, d, f>> is the float f (see the section on numbers): it is true
\* unless the mantissa of f is empty.
TruthyN(x) == x # NULLNUM /\ (IF Len(x) = 3 THEN x[3][2] # <<>> ELSE x[1] # 0)
Truthy(s) == s # NULL /\ s # ""

\* feature.attribute(key): the value of a tag, NULL when the tag is absent
attribute(feature, key) == IF key \in DOMAIN feature THEN feature[key] ELSE NULL

\* ------------------------------------------------------------------ floats

\* The widths, the factors and the index are Python floats: IEEE 754
\* doubles, a sign and a mantissa of 53 bits, and every operation returns the
\* double nearest to its exact result, halves to the even mantissa. The
\* mantissa is a natural number beyond the 32-bit integers of TLC, kept as
\* a sequence of limbs of 15 bits, the lowest limb first, without high zero
\* limbs.
LimbBase == 2 ^ 15

RECURSIVE BNat(_)
BNat(n) == IF n = 0 THEN <<>> ELSE <<n % LimbBase>> \o BNat(n \div LimbBase)

RECURSIVE BInt(_)
BInt(a) == IF a = <<>> THEN 0 ELSE a[1] + LimbBase * BInt(Tail(a))

RECURSIVE BTrim(_)
BTrim(a) == IF a # <<>> /\ a[Len(a)] = 0 THEN BTrim(SubSeq(a, 1, Len(a) - 1)) ELSE a

BLimb(a, i) == IF i <= Len(a) THEN a[i] ELSE 0

RECURSIVE BAddFrom(_, _, _, _)
BAddFrom(a, b, i, carry) ==
    IF i > Len(a) /\ i > Len(b) THEN (IF carry = 0 THEN <<>> ELSE <<carry>>)
    ELSE LET s == BLimb(a, i) + BLimb(b, i) + carry
         IN  <<s % LimbBase>> \o BAddFrom(a, b, i + 1, s \div LimbBase)

BAdd(a, b) == BAddFrom(a, b, 1, 0)

\* a - b for a >= b
RECURSIVE BSubFrom(_, _, _, _)
BSubFrom(a, b, i, borrow) ==
    IF i > Len(a) THEN <<>>
    ELSE LET s == a[i] - BLimb(b, i) - borrow
         IN  <<IF s < 0 THEN s + LimbBase ELSE s>>
             \o BSubFrom(a, b, i + 1, IF s < 0 THEN 1 ELSE 0)

BSub(a, b) == BTrim(BSubFrom(a, b, 1, 0))

RECURSIVE BLessFrom(_, _, _)
BLessFrom(a, b, i) ==
    IF i = 0 THEN FALSE
    ELSE IF a[i] # b[i] THEN a[i] < b[i]
    ELSE BLessFrom(a, b, i - 1)

BLess(a, b) == IF Len(a) # Len(b) THEN Len(a) < Len(b) ELSE BLessFrom(a, b, Len(a))

\* a * k for a small k < LimbBase
RECURSIVE BScaleFrom(_, _, _, _)
BScaleFrom(a, k, i, carry) ==
    IF i > Len(a) THEN (IF carry = 0 THEN <<>> ELSE <<carry>>)
    ELSE LET s == a[i] * k + carry
         IN  <<s % LimbBase>> \o BScaleFrom(a, k, i + 1, s \div LimbBase)

BScale(a, k) == IF k = 0 THEN <<>> ELSE BScaleFrom(a, k, 1, 0)

RECURSIVE BMulFrom(_, _, _)
BMulFrom(a, b, i) ==
    IF i > Len(b) THEN <<>>
    ELSE BAdd(BScale(a, b[i]), <<0>> \o BMulFrom(a, b, i + 1))

BMul(a, b) == BTrim(BMulFrom(a, b, 1))

\* a * 2^n
BShl(a, n) ==
    IF a = <<>> THEN <<>>
    ELSE [i \in 1..(n \div 15) |-> 0] \o BScale(a, 2 ^ (n % 15))

\* a \div k for a small k, from limb i downward with the remainder so far
RECURSIVE BDivSmallFrom(_, _, _, _)
BDivSmallFrom(a, k, i, rem) ==
    IF i = 0 THEN <<>>
    ELSE LET t == rem * LimbBase + a[i]
         IN  BDivSmallFrom(a, k, i - 1, t % k) \o <<t \div k>>

\* a \div 2^n
BShr(a, n) ==
    LET w == n \div 15
    IN  IF w >= Len(a) THEN <<>>
        ELSE BTrim(BDivSmallFrom(SubSeq(a, w + 1, Len(a)), 2 ^ (n % 15),
                                 Len(a) - w, 0))

\* the number of bits of a
BitLen(a) ==
    IF a = <<>> THEN 0
    ELSE 15 * (Len(a) - 1)
         + (CHOOSE k \in 1..15 : 2 ^ (k - 1) <= a[Len(a)] /\ a[Len(a)] < 2 ^ k)

\* One digit of the long division: the quotient of r by b for r < b * LimbBase
\* and a divisor whose highest limb has its highest bit set. The quotient of
\* the two highest limbs of r by the highest limb of b is the digit or up to
\* two more.
BDigitFrom(r, b, est) ==
    IF BLess(r, b) THEN 0
    ELSE IF ~BLess(r, BScale(b, est)) THEN est
    ELSE IF ~BLess(r, BScale(b, est - 1)) THEN est - 1
    ELSE est - 2

BMin(m, n) == IF m < n THEN m ELSE n

BDigit(r, b) ==
    BDigitFrom(r, b, BMin((BLimb(r, Len(b) + 1) * LimbBase + BLimb(r, Len(b))) \div b[Len(b)],
                          LimbBase - 1))

\* one step of the long division: the quotient and the remainder so far, p,
\* take in the next lower limb of the dividend
BDivPut(q, r, b, digit) == << <<digit>> \o q, BSub(r, BScale(b, digit)) >>

BDivTake(q, r, b) == BDivPut(q, r, b, BDigit(r, b))

BDivStep(p, limb, b) ==
    IF p[2] = <<>> /\ limb = 0 THEN << <<0>> \o p[1], <<>> >>
    ELSE BDivTake(p[1], <<limb>> \o p[2], b)

\* long division limb by limb: quotient and remainder of the limbs of a from
\* the highest down to limb i. The highest limbs of a, one fewer than b has,
\* are below b and are the first remainder.
RECURSIVE BDivFrom(_, _, _)
BDivFrom(a, b, i) ==
    IF i > Len(a) - Len(b) + 1
    THEN << <<>>, BTrim(SubSeq(a, Len(a) - Len(b) + 2, Len(a))) >>
    ELSE BDivStep(BDivFrom(a, b, i + 1), a[i], b)

\* the quotient of a by b, and whether the division leaves a remainder
BDivResult(qr) == <<BTrim(qr[1]), qr[2] # <<>> >>

BDivShifted(a, b, s) == BDivResult(BDivFrom(BShl(a, s), BShl(b, s), 1))

BDivMod(a, b) ==
    IF Len(a) < Len(b) THEN << <<>>, a # <<>> >>
    ELSE BDivShifted(a, b, 15 - BitLen(<<b[Len(b)]>>))

\* n * 2^(-k) as an integer, halves to the even one
BRoundTie(q, r, half) ==
    IF BLess(half, r) \/ (r = half /\ BLimb(q, 1) % 2 = 1) THEN BAdd(q, <<1>>) ELSE q

BRoundRest(n, k, q) == BRoundTie(q, BSub(n, BShl(q, k)), BShl(<<1>>, k - 1))

BRoundShr(n, k) ==
    IF k <= 0 THEN BShl(n, 0 - k) ELSE BRoundRest(n, k, BShr(n, k))

\* A double is <<sign, mantissa, exponent>> and stands for
\* sign * mantissa * 2^exponent.
Doubles == {-1, 1} \X Seq(0..(LimbBase - 1)) \X Int

FZero == <<1, <<>>, 0>>

\* the double nearest to sign * n * 2^e for a mantissa n of any length
FRoundBits(sign, n, e, k) ==
    IF k <= 0 THEN <<sign, n, e>> ELSE <<sign, BRoundShr(n, k), e + k>>

FRound(sign, n, e) ==
    IF n = <<>> THEN FZero ELSE FRoundBits(sign, n, e, BitLen(n) - 53)

FNeg(x) == <<0 - x[1], x[2], x[3]>>
FAbs(x) == <<1, x[2], x[3]>>
FTruthy(x) == x[2] # <<>>

\* the exact sum of two doubles
FExactSum(sx, a, sy, b, e) ==
    IF sx = sy THEN <<sx, BAdd(a, b), e>>
    ELSE IF BLess(a, b) THEN <<sy, BSub(b, a), e>>
    ELSE <<sx, BSub(a, b), e>>

FAligned(x, y, e) == FExactSum(x[1], BShl(x[2], x[3] - e), y[1], BShl(y[2], y[3] - e), e)

FExactAdd(x, y) == FAligned(x, y, BMin(x[3], y[3]))

FRoundExact(z) == FRound(z[1], z[2], z[3])

\* The operations of Python on floats. They are functions, so that the
\* operands are values before the operation starts, as they are in Python.
FAdd[x \in Doubles, y \in Doubles] ==
    IF x[2] = <<>> THEN y
    ELSE IF y[2] = <<>> THEN x
    ELSE FRoundExact(FExactAdd(x, y))

FSub[x \in Doubles, y \in Doubles] == FAdd[x, FNeg(y)]

FMul[x \in Doubles, y \in Doubles] ==
    IF x[2] = <<>> \/ y[2] = <<>> THEN FZero
    ELSE FRound(x[1] * y[1], BMul(x[2], y[2]), x[3] + y[3])

\* x / y for y # 0: the quotient of the mantissas to at least 55 bits, with
\* one more bit below that tells whether a remainder was left
FSticky(qr) == BAdd(BScale(qr[1], 2), IF qr[2] THEN <<1>> ELSE <<>>)

FQuotient(x, y, k) ==
    FRound(x[1] * y[1], FSticky(BDivMod(BShl(x[2], k), y[2])), x[3] - y[3] - k - 1)

FDiv[x \in Doubles, y \in Doubles \ {FZero}] ==
    IF x[2] = <<>> THEN FZero
    ELSE FQuotient(x, y, 0 - BMin(0, BitLen(x[2]) - BitLen(y[2]) - 55))

FNegative(z) == z[1] = -1 /\ z[2] # <<>>

FLess[x \in Doubles, y \in Doubles] == FNegative(FExactAdd(x, FNeg(y)))

\* max(x, y) and min(x, y) of Python: the first operand unless the second is
\* greater, or lower
FMax[x \in Doubles, y \in Doubles] == IF FLess[x, y] THEN y ELSE x
FMin[x \in Doubles, y \in Doubles] == IF FLess[y, x] THEN y ELSE x

\* the float of a number of the model: the double nearest to n / d, which is
\* what Python reads from a decimal literal and what round(x, digits) returns
FInt(n) == <<IF n < 0 THEN -1 ELSE 1, BNat(Abs(n)), 0>>

Float(x) == IF x[2] = 1 THEN FInt(x[1]) ELSE FDiv[FInt(x[1]), FInt(x[2])]

\* round(x, digits) for scale = 10^digits, and round(x) for scale = 1: the
\* multiple of 1 / scale nearest to the exact value of the double x, halves
\* to the even one
PyRound(x, scale) ==
    Rat(x[1] * BInt(BRoundShr(BScale(x[2], scale), 0 - x[3])), scale)

\* x rounded to the nearest integer for an exact x >= 0, halves to the even
\* one
RoundInt(x) ==
    LET q == x[1] \div x[2]
        r == x[1] % x[2]
    IN  IF 2 * r > x[2] \/ (2 * r = x[2] /\ q % 2 = 1) THEN q + 1 ELSE q

\* x >= 0 is a half: it lies in the middle of two neighbouring multiples of
\* 1 / scale, so that 2 * scale * x is an odd integer (x is in lowest terms)
IsHalf(x, scale) ==
    (2 * scale) % x[2] = 0 /\ (((2 * scale) \div x[2]) * x[1]) % 2 = 1

\* round(float, digits) for scale = 10^digits and round(float) for scale = 1,
\* for the float that the code computes where exact arithmetic gives x >= 0.
\* The float differs from x by the rounding errors of a few operations, less
\* than 10^-12. The denominator of x is below 2^31, so that an x that is not
\* a half is 2^-32 / scale or more away from every half, and the float lies
\* on the same side of it: the float rounds as x does. At a half x has no
\* nearest neighbour, and the side on which the float lies decides.
Round(x, float, scale) ==
    IF IsHalf(x, scale) THEN PyRound(float, scale)
    ELSE Rat(RoundInt(<<x[1] * scale, x[2]>>), scale)

Round1(x, float) == Round(x, float, 10)
Round2(x, float) == Round(x, float, 100)

\* ------------------------------------------------------------------ numbers

\* The widths of the program are Python floats. A number <<n, d>> of the
\* model stands for the double nearest to n / d: what d.getNumber reads
\* from the decimal n / d, what a decimal literal of the code is, and what
\* round returns. Arithmetic on such doubles does not always return the
\* double nearest to the exact result on the decimals: 2 - 1.6 - 0.4 is
\* -2^-53 and not 0, and 1.5 * 1.6 is 2.4000000000000004. Where it does not,
\* the number is <<n, d, f>>: n / d is the exact result on the decimals, and
\* f is the double that the code has. The truth value of such a number and
\* its comparisons are those of f.
Exact(x) == <<x[1], x[2]>>
FloatOf(x) == IF Len(x) = 3 THEN x[3] ELSE Float(x)

\* the floats of a sequence of numbers
RECURSIVE FloatsOf(_)
FloatsOf(xs) == IF xs = <<>> THEN <<>> ELSE <<FloatOf(Head(xs))>> \o FloatsOf(Tail(xs))

FEqual(x, y) == FExactAdd(x, FNeg(y))[2] = <<>>

\* the double written with an odd mantissa, which makes equal doubles equal
\* values of the model
RECURSIVE FNormal(_)
FNormal(x) ==
    IF x[2] = <<>> THEN FZero
    ELSE IF x[2][1] % 2 = 0 THEN FNormal(<<x[1], BShr(x[2], 1), x[3] + 1>>)
    ELSE x

\* the number for the float that an operation returns, where exact is the
\* result of the operation on the decimals and nearest the float of exact
Number(exact, float, nearest) ==
    IF FEqual(float, nearest) THEN exact ELSE <<exact[1], exact[2], FNormal(float)>>

\* the operation F of Python on the floats f[1] and f[2] of two numbers
Rounded(exact, f, F) == Number(exact, F[f[1], f[2]], f[3])
Arith(exact, a, b, F) == Rounded(exact, FloatsOf(<<a, b, exact>>), F)

\* a + b, a - b, a * b and a / b of Python on two numbers
NAdd(a, b) == Arith(RAdd(Exact(a), Exact(b)), a, b, FAdd)
NSub(a, b) == Arith(RSub(Exact(a), Exact(b)), a, b, FSub)
NMul(a, b) == Arith(RMul(Exact(a), Exact(b)), a, b, FMul)
NDiv(a, b) == Arith(RDiv(Exact(a), Exact(b)), a, b, FDiv)

\* a < b and a <= b. Two numbers <<n, d>> compare as their decimals do: the
\* decimals of the model have small denominators, and two different ones
\* are different doubles in the same order.
FloatLess(f) == FLess[f[1], f[2]]
NLess(a, b) ==
    IF Len(a) = 2 /\ Len(b) = 2 THEN RLt(a, b) ELSE FloatLess(FloatsOf(<<a, b>>))
NLe(a, b) == ~NLess(b, a)

\* max(a, b) and min(a, b) of Python: the first operand unless the second is
\* greater, or lower
NMax(a, b) == IF NLess(a, b) THEN b ELSE a
NMin(a, b) == IF NLess(b, a) THEN b ELSE a

\* ------------------------------------------------------------------ module constants

ALLOWED_BICYCLE_ACCESS ==
    {"yes", "permissive", "designated", "use_sidepath", "optional_sidepath", "discouraged"}
LINK_ATTRIBUTES == {"footway", "cycleway", "path", "bridleway"}
CROSSING_ATTRIBUTES == {"footway", "cycleway", "path", "bridleway"}
SHARED_FOOTWAY_HIGHWAYS == {"footway", "pedestrian", "bridleway", "steps"}
ONEWAY_VALUE_LIST == {"yes", "no", "-1", "alternating", "reversible"}
CYCLE_LANE_TYPES ==
    {"cycle lane (advisory)", "cycle lane (exclusive)", "cycle lane (protected)",
     "cycle lane (central)"}
SHARED_ROAD_TYPES == {"bicycle road", "shared road", "shared traffic lane", "track or service"}
SHARED_TYPES == SHARED_ROAD_TYPES \cup {"shared bus lane"}
CYCLEWAY_KEYS == {"cycleway", "cycleway:both", "cycleway:left", "cycleway:right"}
WAY_TYPES ==
    {"bicycle road", "link", "crossing", "shared footway", "segregated path", "shared path",
     "cycle path", "cycle track", "track or service", "shared traffic lane", "shared road",
     "shared bus lane"} \cup CYCLE_LANE_TYPES

\* the names of the fields main adds to the layer (the keys of the dict, in order)
new_attributes_dict ==
    << "way_type", "index", "index_10", "stress_level", "offset",
       "offset_cycleway_left", "offset_cycleway_right", "offset_sidewalk_left",
       "offset_sidewalk_right", "type", "side", "proc_width", "proc_surface",
       "proc_smoothness", "proc_oneway", "proc_sidepath", "proc_highway",
       "proc_maxspeed", "proc_traffic_mode_left", "proc_traffic_mode_right",
       "proc_separation_left", "proc_separation_right", "proc_buffer_left",
       "proc_buffer_right", "proc_mandatory", "proc_traffic_sign", "fac_width",
       "fac_surface", "fac_highway", "fac_maxspeed", "fac_protection_level",
       "prot_level_separation_left", "prot_level_separation_right",
       "prot_level_buffer_left", "prot_level_buffer_right", "prot_level_left",
       "prot_level_right", "base_index", "fac_1", "fac_2", "fac_3", "fac_4",
       "data_bonus", "data_malus", "data_incompleteness", "data_missing",
       "data_missing_width", "data_missing_surface", "data_missing_smoothness",
       "data_missing_maxspeed", "data_missing_parking", "data_missing_lit",
       "filter_usable", "filter_way_type" >>

\* ------------------------------------------------------------------ definitions.py helpers

\* d.getNumber: the number a tag value parses to, null for an absent or
\* unparsable value
NumberTable ==
    ("0" :> <<0, 1>>) @@ ("0.5" :> <<1, 2>>) @@ ("0.4" :> <<2, 5>>) @@ ("1" :> <<1, 1>>) @@
    ("1.5" :> <<3, 2>>) @@ ("1.6" :> <<8, 5>>) @@ ("2" :> <<2, 1>>) @@ ("2.4" :> <<12, 5>>) @@
    ("3" :> <<3, 1>>) @@ ("3.2" :> <<16, 5>>) @@ ("4" :> <<4, 1>>) @@ ("6" :> <<6, 1>>) @@
    ("8" :> <<8, 1>>) @@ ("10" :> <<10, 1>>) @@ ("20" :> <<20, 1>>) @@ ("30" :> <<30, 1>>) @@
    ("50" :> <<50, 1>>) @@ ("100" :> <<100, 1>>) @@ ("299" :> <<299, 1>>)
getNumber(value) == IF value \in DOMAIN NumberTable THEN NumberTable[value] ELSE NULLNUM

\* d.getAccess: the access value of the feature for a traffic mode
getAccess(feature, access_key) == attribute(feature, access_key)

\* "sub in s" for the separation values of the model
SeparationContains(sub, s) ==
    CASE sub = "kerb" -> s \in {"kerb", "kerb;parking_lane", "lowered_kerb"}
      [] sub = "tree_row" -> s \in {"tree_row", "tree_row;flex_post"}
      [] OTHER -> s = sub

\* d.deriveSeparation: the separation on the side that carries traffic_mode
\* (motor vehicles are assumed on the left and foot traffic on the right
\* unless traffic_mode:* says otherwise)
deriveSeparation(feature, traffic_mode) ==
    LET both == attribute(feature, "traffic_mode:both")
        tl0 == attribute(feature, "traffic_mode:left")
        tr0 == attribute(feature, "traffic_mode:right")
        tl1 == IF Truthy(tl0) THEN tl0 ELSE IF Truthy(both) THEN both ELSE "motor_vehicle"
        tr1 == IF Truthy(tr0) THEN tr0 ELSE IF Truthy(both) THEN both ELSE "foot"
        sboth == attribute(feature, "separation:both")
        sl0 == attribute(feature, "separation:left")
        sr0 == attribute(feature, "separation:right")
        sl1 == IF Truthy(sl0) THEN sl0 ELSE sboth
        sr1 == IF Truthy(sr0) THEN sr0 ELSE sboth
    IN  IF traffic_mode = tr1 THEN sr1
        ELSE IF traffic_mode = tl1 THEN sl1
        ELSE NULL

\* ------------------------------------------------------------------ way type

AnyAttr(feature, keys, values) == \E k \in keys : attribute(feature, k) \in values

delete_if_no_access(feature) ==
    /\ Truthy(getAccess(feature, "bicycle"))
    /\ getAccess(feature, "bicycle") \notin ALLOWED_BICYCLE_ACCESS

\* "value is None" for a value that feature.attribute returned: a string or,
\* for an absent value, the NULL object of QGIS, which is not the None of Python
IsNone(value) == FALSE

delete_informal_paths(feature) ==
    /\ attribute(feature, "highway") = "path"
    /\ attribute(feature, "informal") = "yes"
    /\ IsNone(attribute(feature, "bicycle"))

\* a classification that lets every separation make a protected lane
SeparationTrackMutant(feature) ==
    IF deriveSeparation(feature, "motor_vehicle") \notin {NULL, "no", "none"}
    THEN "cycle lane (protected)"
    ELSE "cycle track"

\* the classification of a cycleway by its motor vehicle separation
SeparationTrack(feature) ==
    LET sep == deriveSeparation(feature, "motor_vehicle")
    IN  IF sep \notin {NULL, "no", "none"}
        THEN IF SeparationContains("kerb", sep) \/ SeparationContains("tree_row", sep)
             THEN "cycle track"
             ELSE "cycle lane (protected)"
        ELSE "cycle track"

\* the "major road" test of an offset geometry (side present)
MajorRoadSide(highway) == highway \in {"primary", "secondary"}

\* a "major road" test that takes every road for a major one
MajorRoadCenterMutant(highway) == Truthy(highway)

MajorRoadCenter(highway) == highway \in {"motorway", "trunk", "primary", "secondary"}

\* the steps of determine_way_type for a feature with a side
WayTypeOfSide(feature) ==
    LET highway == attribute(feature, "highway")
        lane_markings == attribute(feature, "lane_markings")
    IN  IF attribute(feature, "type") = "sidewalk" THEN "shared footway"
        ELSE IF AnyAttr(feature, CYCLEWAY_KEYS, {"lane"})
        THEN IF Truthy(attribute(feature, "cycleway:lanes"))
                  /\ attribute(feature, "cycleway:lanes") \in {"no|lane|no", "no|no|lane|no"}
             THEN "cycle lane (central)"
             ELSE IF deriveSeparation(feature, "motor_vehicle") \notin {NULL, "no", "none"}
             THEN "cycle lane (protected)"
             ELSE IF AnyAttr(feature, {"cycleway:lane", "cycleway:both:lane",
                                       "cycleway:left:lane", "cycleway:right:lane"},
                             {"exclusive"})
             THEN "cycle lane (exclusive)"
             ELSE "cycle lane (advisory)"
        ELSE IF AnyAttr(feature, CYCLEWAY_KEYS, {"track"})
        THEN IF AnyAttr(feature, {"cycleway:foot", "cycleway:both:foot",
                                  "cycleway:left:foot", "cycleway:right:foot"},
                        {"yes", "designated", "permissive"})
             THEN "shared path"
             ELSE IF AnyAttr(feature, {"cycleway:segregated", "cycleway:both:segregated",
                                       "cycleway:left:segregated", "cycleway:right:segregated"},
                             {"yes"})
             THEN "segregated path"
             ELSE IF AnyAttr(feature, {"cycleway:segregated", "cycleway:both:segregated",
                                       "cycleway:left:segregated", "cycleway:right:segregated"},
                             {"no"})
             THEN "shared path"
             ELSE IF deriveSeparation(feature, "foot") = "no" THEN "segregated path"
             ELSE SeparationTrack(feature)
        ELSE IF AnyAttr(feature, CYCLEWAY_KEYS, {"share_busway"}) THEN "shared bus lane"
        ELSE IF AnyAttr(feature, {"sidewalk:bicycle", "sidewalk:both:bicycle",
                                  "sidewalk:left:bicycle", "sidewalk:right:bicycle"}, {"yes"})
        THEN "shared footway"
        ELSE IF lane_markings = "yes" \/ (lane_markings # "yes" /\ MajorRoadSide(highway))
        THEN "shared traffic lane"
        ELSE "shared road"

\* the steps of determine_way_type from the highway class on
WayTypeOfHighway(feature) ==
    LET highway == attribute(feature, "highway")
        segregated == attribute(feature, "segregated")
        bicycle == attribute(feature, "bicycle")
        foot == attribute(feature, "foot")
        is_sidepath == attribute(feature, "is_sidepath")
        side == attribute(feature, "side")
        lane_markings == attribute(feature, "lane_markings")
    IN  IF highway = "path"
        THEN IF foot = "designated" /\ bicycle # "designated" THEN "shared footway"
             ELSE IF segregated = "yes" THEN "segregated path" ELSE "shared path"
        ELSE IF highway = "cycleway"
        THEN IF foot \in {"yes", "designated", "permissive"} THEN "shared path"
             ELSE IF deriveSeparation(feature, "foot") = "no" THEN "segregated path"
             ELSE IF is_sidepath \notin {"yes", "no"}
             THEN IF attribute(feature, "proc_sidepath") = "yes"
                  THEN "cycle track" ELSE "cycle path"
             ELSE IF is_sidepath = "yes" THEN SeparationTrack(feature)
             ELSE "cycle path"
        ELSE IF highway \in {"service", "track"} THEN "track or service"
        ELSE IF ~Truthy(side)
        THEN IF lane_markings = "yes" \/ (lane_markings # "yes" /\ MajorRoadCenter(highway))
             THEN "shared traffic lane"
             ELSE "shared road"
        ELSE WayTypeOfSide(feature)

\* determine_way_type deletes the feature: a footway class without bicycle
\* access that is neither a bicycle road, a link nor a crossing
determine_way_type_deletes(feature) ==
    /\ ~(attribute(feature, "bicycle_road") = "yes" /\ ~Truthy(attribute(feature, "side")))
    /\ ~AnyAttr(feature, LINK_ATTRIBUTES, {"link"})
    /\ ~AnyAttr(feature, CROSSING_ATTRIBUTES, {"crossing"})
    /\ attribute(feature, "highway") \in SHARED_FOOTWAY_HIGHWAYS
    /\ attribute(feature, "bicycle") \notin {"yes", "designated", "permissive"}

\* a cascade that looks for a crossing before it looks for a link
determine_way_type_crossing_first(feature) ==
    IF attribute(feature, "bicycle_road") = "yes" /\ ~Truthy(attribute(feature, "side"))
    THEN "bicycle road"
    ELSE IF AnyAttr(feature, CROSSING_ATTRIBUTES, {"crossing"}) THEN "crossing"
    ELSE IF AnyAttr(feature, LINK_ATTRIBUTES, {"link"}) THEN "link"
    ELSE WayTypeOfHighway(feature)

\* the value determine_way_type returns (after the deletion the function goes
\* on with the next steps)
determine_way_type(feature) ==
    IF attribute(feature, "bicycle_road") = "yes" /\ ~Truthy(attribute(feature, "side"))
    THEN "bicycle road"
    ELSE IF AnyAttr(feature, LINK_ATTRIBUTES, {"link"}) THEN "link"
    ELSE IF AnyAttr(feature, CROSSING_ATTRIBUTES, {"crossing"}) THEN "crossing"
    ELSE IF attribute(feature, "highway") \in SHARED_FOOTWAY_HIGHWAYS
            /\ attribute(feature, "bicycle") \in {"yes", "designated", "permissive"}
    THEN "shared footway"
    ELSE WayTypeOfHighway(feature)

\* ------------------------------------------------------------------ configuration (parameter.py)

\* dict.get(key, default) on a configuration table
Get(dict, key, default) == IF key \in DOMAIN dict THEN dict[key] ELSE default

CfgA ==
    [ \* the fields of the input that are kept: the tags the script reads and
      \* the annotations of the line-splitting stage (side, type)
      attributes_list |->
          <<"id", "highway", "name", "layer", "maxspeed", "bicycle", "foot", "informal",
            "segregated", "bicycle_road", "footway", "path", "bridleway", "tracktype",
            "is_sidepath", "is_sidepath:of", "side", "type", "lit", "lanes",
            "lane_markings", "priority_road", "motor_vehicle", "traffic_sign",
            "oneway", "oneway:bicycle", "cycleway:oneway",
            "cycleway", "cycleway:both", "cycleway:left", "cycleway:right",
            "cycleway:lane", "cycleway:lanes", "cycleway:width", "cycleway:both:width",
            "cycleway:surface", "cycleway:smoothness",
            "sidewalk:bicycle", "sidewalk:both:bicycle", "sidewalk:left:bicycle",
            "sidewalk:right:bicycle", "footway:width",
            "width", "width:effective", "width:lanes", "width:lanes:forward",
            "width:lanes:backward",
            "surface", "surface:bicycle", "surface:colour", "smoothness",
            "smoothness:bicycle", "crossing", "crossing:markings",
            "parking:both", "parking:left", "parking:right",
            "parking:both:orientation", "parking:left:orientation",
            "parking:right:orientation", "parking:both:width", "parking:left:width",
            "parking:right:width",
            "traffic_mode:both", "traffic_mode:left", "traffic_mode:right",
            "separation", "separation:both", "separation:left", "separation:right",
            "buffer", "buffer:both", "buffer:left", "buffer:right">>,
      \* the fields of the result that are written to the output file
      attributes_list_finally_retained |->
          <<"id", "name", "way_type", "index", "index_10", "stress_level",
            "offset", "offset_cycleway_left", "offset_cycleway_right",
            "offset_sidewalk_left", "offset_sidewalk_right", "type", "side",
            "proc_width", "proc_surface", "proc_smoothness", "proc_oneway",
            "proc_sidepath", "proc_highway", "proc_maxspeed",
            "proc_traffic_mode_left", "proc_traffic_mode_right",
            "proc_separation_left", "proc_separation_right", "proc_buffer_left",
            "proc_buffer_right", "proc_mandatory", "proc_traffic_sign",
            "fac_width", "fac_surface", "fac_highway", "fac_maxspeed",
            "base_index", "fac_1", "fac_2", "fac_3", "fac_4",
            "data_bonus", "data_malus", "data_incompleteness", "data_missing",
            "data_missing_width", "data_missing_surface", "data_missing_smoothness",
            "data_missing_maxspeed", "data_missing_parking", "data_missing_lit",
            "filter_usable", "filter_way_type">>,
      \* "realistic" (half the width of the road) or a distance
      offset_distance |-> "realistic",
      right_hand_traffic |-> TRUE,
      default_highway_width_dict |->
          ("path" :> Num(2)) @@ ("footway" :> Num(2)) @@ ("cycleway" :> Rat(3, 2)) @@
          ("residential" :> Num(8)) @@ ("primary" :> Num(16)) @@ ("service" :> Num(4)),
      default_highway_width_fallback |-> Num(8),
      default_oneway_cycle_track |-> "yes",
      default_oneway_cycle_lane |-> "yes",
      default_width_traffic_lane |-> Rat(16, 5),
      default_width_bus_lane |-> Rat(9, 2),
      default_width_cycle_lane |-> Rat(8, 5),
      default_width_parking_parallel |-> Num(2),
      default_width_parking_diagonal |-> Rat(9, 2),
      default_width_parking_perpendicular |-> Num(5),
      default_cycleway_surface_lanes |-> "asphalt",
      default_cycleway_surface_tracks |-> "paving_stones",
      default_track_surface_dict |-> ("grade1" :> "asphalt") @@ ("grade3" :> "compacted"),
      default_highway_surface_dict |->
          ("path" :> "compacted") @@ ("footway" :> "paving_stones") @@
          ("residential" :> "asphalt"),
      surface_factor_dict |->
          ("asphalt" :> Num(1)) @@ ("paving_stones" :> Num(1)) @@
          ("compacted" :> Rat(4, 5)) @@ ("sett" :> Rat(3, 10)),
      smoothness_factor_dict |->
          ("excellent" :> Rat(11, 10)) @@ ("good" :> Num(1)) @@
          ("intermediate" :> Rat(7, 10)) @@ ("bad" :> Rat(3, 10)),
      highway_factor_dict |->
          ("primary" :> Rat(3, 20)) @@ ("residential" :> Rat(9, 10)) @@
          ("living_street" :> Num(1)) @@ ("service" :> Num(1)),
      maxspeed_factor_dict |->
          << <<20, Rat(11, 10)>>, <<30, Num(1)>>, <<50, Rat(17, 20)>>, <<70, Rat(3, 4)>> >>,
      highway_factor_dict_weights |->
          ("cycle path" :> Rat(1, 5)) @@ ("cycle track" :> Rat(1, 2)) @@
          ("shared path" :> Rat(1, 2)) @@ ("shared footway" :> Rat(1, 2)) @@
          ("cycle lane (advisory)" :> Num(1)) @@ ("cycle lane (exclusive)" :> Num(1)) @@
          ("cycle lane (protected)" :> Rat(3, 4)) @@ ("shared road" :> Num(1)) @@
          ("shared traffic lane" :> Num(1)),
      base_index_dict |->
          ("cycle path" :> 100) @@ ("cycle track" :> 90) @@ ("shared path" :> 70) @@
          ("segregated path" :> 80) @@ ("shared footway" :> 50) @@
          ("cycle lane (advisory)" :> 60) @@ ("cycle lane (exclusive)" :> 70) @@
          ("cycle lane (protected)" :> 100) @@ ("cycle lane (central)" :> 50) @@
          ("link" :> 50) @@ ("crossing" :> 50) @@ ("bicycle road" :> 90) @@
          ("shared road" :> 60) @@ ("shared traffic lane" :> 50) @@
          ("shared bus lane" :> 50) @@ ("track or service" :> 50),
      motor_vehicle_access_index_dict |->
          ("no" :> 100) @@ ("private" :> 90) @@ ("destination" :> 80),
      data_incompleteness_dict |->
          ("width" :> 25) @@ ("surface" :> 30) @@ ("smoothness" :> 10) @@
          ("width:lanes" :> 10) @@ ("crossing" :> 10) @@ ("crossing_markings" :> 10) @@
          ("lit" :> 15) @@ ("maxspeed" :> 15),
      mandatory_traffic_sign_list |-> <<"237", "240", "241">>,
      not_mandatory_traffic_sign_list |-> <<"none", "1022-10">>,
      cycling_highway_prohibition_list |-> {"motorway", "motorway_link"} ]

\* a second configuration: left-hand traffic, sparser tables (no default
\* width for "path", way types without a base index, markers without weight)
CfgB ==
    [ CfgA EXCEPT
      !.right_hand_traffic = FALSE,
      !.offset_distance = "0",
      !.attributes_list_finally_retained =
          <<"id", "name", "highway", "way_type", "index", "stress_level", "data_missing">>,
      !.default_highway_width_dict = ("footway" :> Rat(5, 2)) @@ ("cycleway" :> Num(2)),
      !.default_oneway_cycle_track = "no",
      !.default_oneway_cycle_lane = "no",
      !.surface_factor_dict = ("asphalt" :> Rat(11, 10)) @@ ("sett" :> Rat(1, 2)),
      !.base_index_dict =
          ("cycle path" :> 100) @@ ("shared path" :> 0) @@
          ("cycle lane (advisory)" :> 100) @@ ("cycle lane (exclusive)" :> 40) @@
          ("shared road" :> 30),
      !.highway_factor_dict_weights = ("cycle lane (advisory)" :> Rat(1, 2)),
      !.data_incompleteness_dict = ("width" :> 25) @@ ("maxspeed" :> 15),
      !.not_mandatory_traffic_sign_list = <<"none", "1022-10", "241">>,
      \* the thresholds of CfgA, listed from the highest to the lowest
      !.maxspeed_factor_dict =
          << <<70, Rat(3, 4)>>, <<50, Rat(17, 20)>>, <<30, Num(1)>>, <<20, Rat(11, 10)>> >> ]

Configs == {CfgA, CfgB}

\* ------------------------------------------------------------------ oneway

determine_cycleway_oneway(oneway, cycleway_oneway, oneway_bicycle, way_type, side, p) ==
    IF oneway \in ONEWAY_VALUE_LIST THEN oneway
    ELSE IF cycleway_oneway \in ONEWAY_VALUE_LIST THEN cycleway_oneway
    ELSE IF way_type \in {"cycle track", "shared path", "shared footway"} /\ Truthy(side)
    THEN p.default_oneway_cycle_track
    ELSE IF way_type \in CYCLE_LANE_TYPES THEN p.default_oneway_cycle_lane
    ELSE IF oneway_bicycle \in ONEWAY_VALUE_LIST THEN oneway_bicycle
    ELSE "no"

determine_shared_road_oneway(oneway, oneway_bicycle) ==
    IF ~Truthy(oneway_bicycle) \/ oneway = oneway_bicycle
    THEN IF oneway \in ONEWAY_VALUE_LIST THEN oneway ELSE "no"
    ELSE IF oneway_bicycle = "no"
    THEN IF oneway \in ONEWAY_VALUE_LIST THEN oneway \o "_motor_vehicles" ELSE "no"
    ELSE "yes"

derive_oneway_status(feature, p) ==
    LET side == attribute(feature, "side")
        oneway == attribute(feature, "oneway")
        oneway_bicycle == attribute(feature, "oneway:bicycle")
        cycleway_oneway == attribute(feature, "cycleway:oneway")
        way_type == attribute(feature, "way_type")
        proc_oneway ==
            IF way_type \in {"cycle path", "cycle track", "shared path", "segregated path",
                             "shared footway", "crossing", "link"} \cup CYCLE_LANE_TYPES
            THEN determine_cycleway_oneway(oneway, cycleway_oneway, oneway_bicycle,
                                           way_type, side, p)
            ELSE IF way_type = "shared bus lane" THEN "yes"
            ELSE IF way_type \in SHARED_ROAD_TYPES
            THEN determine_shared_road_oneway(oneway, oneway_bicycle)
            ELSE NULL
    IN  IF Truthy(proc_oneway) THEN proc_oneway ELSE "unknown"

\* 'yes' in proc_oneway
YesIn(proc_oneway) == proc_oneway \in {"yes", "yes_motor_vehicles"}

\* ------------------------------------------------------------------ width

\* the result of a resolver: a value, the missing markers it raised, and
\* whether it ended in an exception
Result(v, m) == [value |-> v, data_missing |-> m, error |-> FALSE]
Raise(m) == [value |-> NULLNUM, data_missing |-> m, error |-> TRUE]

get_precalculated_feature_width(feature) ==
    IF TruthyN(getNumber(attribute(feature, "cycleway:width")))
    THEN getNumber(attribute(feature, "cycleway:width"))
    ELSE IF TruthyN(getNumber(attribute(feature, "width")))
    THEN getNumber(attribute(feature, "width"))
    ELSE NULLNUM

get_default_width_for_way_type(feature, p) ==
    LET way_type == attribute(feature, "way_type")
    IN  IF way_type \in {"cycle path", "shared path", "cycle lane (protected)"}
        THEN Get(p.default_highway_width_dict, "path", NULLNUM)
        ELSE IF way_type = "shared footway"
        THEN Get(p.default_highway_width_dict, "footway", NULLNUM)
        ELSE Get(p.default_highway_width_dict, "cycleway", NULLNUM)

\* the factor by which a default width is widened on a two-way path
TwoWayFactorMutant == Num(2)
TwoWayFactor == Rat(8, 5)

\* width = default; if proc_oneway == 'no': width *= 1.6
DefaultWidth(default, proc_oneway, data_missing) ==
    IF proc_oneway = "no"
    THEN IF default = NULLNUM THEN Raise(data_missing)
         ELSE Result(NMul(default, TwoWayFactor), Append(data_missing, "width"))
    ELSE Result(default, Append(data_missing, "width"))

get_width_footway(feature) ==
    LET width == getNumber(attribute(feature, "width"))
        footway_width == getNumber(attribute(feature, "footway:width"))
    IN  IF ~TruthyN(width) THEN NULLNUM
        ELSE IF TruthyN(footway_width) THEN NSub(width, footway_width)
        ELSE NDiv(width, Num(2))

WidthDedicated(feature, proc_oneway, p) ==
    LET width == get_precalculated_feature_width(feature)
    IN  IF ~TruthyN(width)
        THEN DefaultWidth(get_default_width_for_way_type(feature, p), proc_oneway, <<>>)
        ELSE Result(width, <<>>)

WidthSegregated(feature, proc_oneway, p) ==
    LET is_path == attribute(feature, "highway") = "path"
        cw == getNumber(attribute(feature, "cycleway:width"))
        proc_width == IF is_path THEN get_width_footway(feature)
                      ELSE getNumber(attribute(feature, "width"))
        data_missing == IF is_path THEN <<"width">> ELSE <<>>
    IN  IF is_path /\ TruthyN(cw) THEN Result(cw, <<>>)
        ELSE IF ~TruthyN(proc_width)
        THEN DefaultWidth(Get(p.default_highway_width_dict, "path", NULLNUM),
                          proc_oneway, data_missing)
        ELSE Result(proc_width, data_missing)

\* the part of a lanes value after the last '|' (values without '|' are not
\* in the table)
LastLaneTable ==
    ("3|3.2" :> "3.2") @@ ("3.2|4" :> "4") @@ ("3|x" :> "x") @@ ("2.4|3|3" :> "3") @@
    ("3|0.5" :> "0.5")
HasBar(s) == s \in DOMAIN LastLaneTable

split_both_values_to_left_right(both_value, left_value, right_value) ==
    IF Truthy(both_value)
    THEN <<IF Truthy(left_value) THEN left_value ELSE both_value,
           IF Truthy(right_value) THEN right_value ELSE both_value>>
    ELSE <<left_value, right_value>>

\* split_both_values_to_left_right on numbers
split_both_numbers(both_value, left_value, right_value) ==
    IF TruthyN(both_value)
    THEN <<IF TruthyN(left_value) THEN left_value ELSE both_value,
           IF TruthyN(right_value) THEN right_value ELSE both_value>>
    ELSE <<left_value, right_value>>

calculate_parking_width(parking_side, parking_width, parking_orientation, p) ==
    LET w1 == IF parking_side \in {"lane", "half_on_kerb"} /\ ~TruthyN(parking_width)
              THEN IF parking_orientation = "diagonal" THEN p.default_width_parking_diagonal
                   ELSE IF parking_orientation = "perpendicular"
                   THEN p.default_width_parking_perpendicular
                   ELSE p.default_width_parking_parallel
              ELSE parking_width
        w2 == IF parking_side = "half_on_kerb" THEN NDiv(w1, Num(2)) ELSE w1
    IN  IF TruthyN(w2) THEN w2 ELSE Num(0)

get_parking_status(feature) ==
    split_both_values_to_left_right(attribute(feature, "parking:both"),
                                    attribute(feature, "parking:left"),
                                    attribute(feature, "parking:right"))

get_parking_width(feature, p) ==
    LET parking == get_parking_status(feature)
        orientation ==
            split_both_values_to_left_right(attribute(feature, "parking:both:orientation"),
                                            attribute(feature, "parking:left:orientation"),
                                            attribute(feature, "parking:right:orientation"))
        width ==
            split_both_numbers(getNumber(attribute(feature, "parking:both:width")),
                               getNumber(attribute(feature, "parking:left:width")),
                               getNumber(attribute(feature, "parking:right:width")))
    IN  <<calculate_parking_width(parking[1], width[1], orientation[1], p),
          calculate_parking_width(parking[2], width[2], orientation[2], p)>>

\* process_cycleway_sides with oneway = False: the cycleway value of a side
CyclewaySide(feature, side) ==
    LET own == attribute(feature, "cycleway:" \o side)
        c1 == IF Truthy(attribute(feature, "cycleway")) /\ ~Truthy(own)
              THEN attribute(feature, "cycleway") ELSE own
    IN  IF Truthy(attribute(feature, "cycleway:both")) /\ ~Truthy(c1)
        THEN attribute(feature, "cycleway:both") ELSE c1

\* process_cycleway_widths and the defaults of make_cycleway_buffers, then
\* d.getNumber: the width of the cycle lane on a side (null when the tagged
\* width does not parse)
CyclewaySideWidth(feature, side, p) ==
    LET lane == CyclewaySide(feature, "right") = "lane" \/ CyclewaySide(feature, "left") = "lane"
        own == attribute(feature, "cycleway:" \o side \o ":width")
        w1 == IF lane /\ Truthy(attribute(feature, "cycleway:width")) /\ ~Truthy(own)
              THEN attribute(feature, "cycleway:width") ELSE own
        w2 == IF lane /\ Truthy(attribute(feature, "cycleway:both:width")) /\ ~Truthy(w1)
              THEN attribute(feature, "cycleway:both:width") ELSE w1
    IN  IF Truthy(w2) THEN getNumber(w2)
        ELSE IF CyclewaySide(feature, side) = "lane" THEN p.default_width_cycle_lane
        ELSE Num(0)

RECURSIVE FirstTruthy(_, _)
FirstTruthy(feature, keys) ==
    IF keys = <<>> THEN NULL
    ELSE IF Truthy(attribute(feature, Head(keys))) THEN attribute(feature, Head(keys))
    ELSE FirstTruthy(feature, Tail(keys))

\* process_buffer: the buffer tags of the cycle lane on `side`, towards
\* the left and towards the right
process_buffer(feature, side) ==
    LET tags(dir) ==
            <<"cycleway:" \o side \o ":buffer:" \o dir, "cycleway:" \o side \o ":buffer:both",
              "cycleway:" \o side \o ":buffer",
              "cycleway:both:buffer:" \o dir, "cycleway:both:buffer:both", "cycleway:both:buffer",
              "cycleway:buffer:" \o dir, "cycleway:buffer:both", "cycleway:buffer">>
    IN  <<FirstTruthy(feature, tags("left")), FirstTruthy(feature, tags("right"))>>

\* the four buffer numbers that calc_feature_width adds up (False counts 0)
BufferNumbers(feature) ==
    LET r == process_buffer(feature, "right")
        l == process_buffer(feature, "left")
        rr == IF CyclewaySide(feature, "right") = "lane"
              THEN <<getNumber(r[1]), getNumber(r[2])>> ELSE <<Num(0), Num(0)>>
        ll == IF CyclewaySide(feature, "left") = "lane"
              THEN <<getNumber(l[1]), getNumber(l[2])>> ELSE <<Num(0), Num(0)>>
    IN  rr \o ll

assure_default_width(feature, proc_oneway, p) ==
    LET highway == attribute(feature, "highway")
        width == Get(p.default_highway_width_dict, highway, p.default_highway_width_fallback)
    IN  IF YesIn(proc_oneway)
        THEN Round1(RDiv(width, TwoWayFactor), FDiv[Float(width), Float(TwoWayFactor)])
        ELSE width

\* the lane based width of a shared traffic lane or shared bus lane
WidthLanes(feature, proc_oneway, p) ==
    LET way_type == attribute(feature, "way_type")
        width_lanes == attribute(feature, "width:lanes")
        width_lanes_forward == attribute(feature, "width:lanes:forward")
        width_lanes_backward == attribute(feature, "width:lanes:backward")
        side == attribute(feature, "side")
        two_way_bus == way_type = "shared bus lane" /\ ~YesIn(proc_oneway)
    IN  IF (YesIn(proc_oneway) \/ way_type # "shared bus lane") /\ HasBar(width_lanes)
        THEN Result(getNumber(LastLaneTable[width_lanes]), <<>>)
        ELSE IF two_way_bus /\ side = "right" /\ HasBar(width_lanes_forward)
        THEN Result(getNumber(LastLaneTable[width_lanes_forward]), <<>>)
        ELSE IF two_way_bus /\ side = "left" /\ HasBar(width_lanes_backward)
        THEN Result(getNumber(LastLaneTable[width_lanes_backward]), <<>>)
        ELSE IF way_type = "shared bus lane" THEN Result(p.default_width_bus_lane, <<>>)
        ELSE Result(p.default_width_traffic_lane, <<"width:lanes">>)

\* the width of the carriageway: tagged, or the default of the highway class
CarriagewayWidth(tagged, feature, proc_oneway, p) ==
    IF TruthyN(tagged) THEN tagged ELSE assure_default_width(feature, proc_oneway, p)

\* proc_width after the parking lanes are subtracted, or else, on a shared
\* road, after the cap
\* The subtractions are those of Python on floats, one after the other from
\* the left: from a width of 2, parking lanes of 1.6 and 0.4 leave -2^-53.
MinusParking(w, parking, parking_width, way_type, proc_oneway) ==
    IF Truthy(parking[2]) \/ Truthy(parking[1])
    THEN NSub(NSub(w, parking_width[2]), parking_width[1])
    ELSE IF way_type = "shared road"
    THEN IF ~YesIn(proc_oneway) THEN NMin(w, Rat(11, 2)) ELSE NMin(w, Num(4))
    ELSE w

\* a defaulted width is at least one traffic lane; a width that is the float
\* 0 is null, and a width that is not, however small, is kept
AtLeastLane(w, tagged, p) ==
    IF NLess(w, p.default_width_traffic_lane) /\ ~TruthyN(tagged)
    THEN p.default_width_traffic_lane
    ELSE IF TruthyN(w) THEN w ELSE NULLNUM

\* width - cycleway_right_width - cycleway_left_width - buffer, where buffer
\* is the sum of the four buffers from the left
MinusLanes(width, crw, clw, b) ==
    NSub(NSub(NSub(width, crw), clw), NAdd(NAdd(NAdd(b[1], b[2]), b[3]), b[4]))

\* the arithmetic of calc_feature_width raises on a null operand
LanesRaise(crw, clw, b) ==
    crw = NULLNUM \/ clw = NULLNUM \/ \E i \in 1..4 : b[i] = NULLNUM

CarriagewayResult(tagged, crw, clw, b, feature, proc_oneway, p, data_missing) ==
    IF LanesRaise(crw, clw, b) THEN Raise(data_missing)
    ELSE Result(AtLeastLane(MinusParking(MinusLanes(CarriagewayWidth(tagged, feature,
                                                                     proc_oneway, p),
                                                    crw, clw, b),
                                         get_parking_status(feature),
                                         get_parking_width(feature, p),
                                         attribute(feature, "way_type"), proc_oneway),
                            tagged, p),
                data_missing)

MarkWidth(tagged, missing0) == IF TruthyN(tagged) THEN missing0 ELSE Append(missing0, "width")

\* the carriageway width minus cycle lanes, buffers and parking
WidthCarriageway(feature, proc_oneway, p, missing0) ==
    CarriagewayResult(getNumber(attribute(feature, "width")),
                      CyclewaySideWidth(feature, "right", p),
                      CyclewaySideWidth(feature, "left", p),
                      BufferNumbers(feature), feature, proc_oneway, p,
                      MarkWidth(getNumber(attribute(feature, "width")), missing0))

\* lanes * p.default_width_traffic_lane
WidthByLanes(lanes, p) == NMul(lanes, p.default_width_traffic_lane)

\* the width of a shared way type from the lane based width, if there is
\* one, and from the width that the lane count gives
WidthSharedFrom(feature, proc_oneway, p, lanes_result, by_lanes) ==
    LET effective == getNumber(attribute(feature, "width:effective"))
        lanes == getNumber(attribute(feature, "lanes"))
    IN  IF TruthyN(lanes_result.value) THEN lanes_result
        ELSE IF TruthyN(effective) THEN Result(effective, lanes_result.data_missing)
        ELSE IF ~TruthyN(getNumber(attribute(feature, "width"))) /\ TruthyN(lanes)
                /\ TruthyN(by_lanes)
        THEN Result(by_lanes, lanes_result.data_missing)
        ELSE WidthCarriageway(feature, proc_oneway, p, lanes_result.data_missing)

WidthShared(feature, proc_oneway, p) ==
    WidthSharedFrom(feature, proc_oneway, p,
                    IF attribute(feature, "way_type")
                           \in {"shared traffic lane", "shared bus lane"}
                    THEN WidthLanes(feature, proc_oneway, p)
                    ELSE Result(NULLNUM, <<>>),
                    WidthByLanes(getNumber(attribute(feature, "lanes")), p))

calc_feature_width(feature, proc_oneway, p) ==
    LET way_type == attribute(feature, "way_type")
    IN  IF way_type \in {"cycle path", "cycle track", "shared path", "shared footway",
                         "crossing", "link"} \cup CYCLE_LANE_TYPES
        THEN WidthDedicated(feature, proc_oneway, p)
        ELSE IF way_type = "segregated path" THEN WidthSegregated(feature, proc_oneway, p)
        ELSE IF way_type \in SHARED_TYPES THEN WidthShared(feature, proc_oneway, p)
        ELSE Result(NULLNUM, <<>>)

\* ------------------------------------------------------------------ surface and smoothness

\* d.getDelimitedValues(value, ';', 'string') for the multi-values of the model
SplitTable ==
    ("asphalt;sett" :> <<"asphalt", "sett">>) @@
    ("asphalt;gravel" :> <<"asphalt", "gravel">>) @@
    ("237;1022-10" :> <<"237", "1022-10">>) @@
    ("1022-10;237" :> <<"1022-10", "237">>)
HasSemicolon(s) == s \in DOMAIN SplitTable
getDelimitedValues(s) == IF HasSemicolon(s) THEN SplitTable[s] ELSE <<s>>

\* d.getWeakestSurfaceValue: the listed value that comes last in the fixed
\* order of surface qualities, null if none is listed there
SurfaceOrder == <<"asphalt", "paving_stones", "compacted", "sett", "gravel">>
getWeakestSurfaceValue(values) ==
    LET pos(v) == IF \E i \in 1..Len(SurfaceOrder) : SurfaceOrder[i] = v
                  THEN CHOOSE i \in 1..Len(SurfaceOrder) : SurfaceOrder[i] = v ELSE 0
        known == {j \in 1..Len(values) : pos(values[j]) > 0}
    IN  IF known = {} THEN NULL
        ELSE values[CHOOSE j \in known : \A k \in known : pos(values[k]) <= pos(values[j])]

get_default_surface(feature, way_type, p) ==
    IF way_type \in CYCLE_LANE_TYPES THEN p.default_cycleway_surface_lanes
    ELSE IF way_type = "cycle track" THEN p.default_cycleway_surface_tracks
    ELSE IF way_type = "track or service"
    THEN Get(p.default_track_surface_dict, attribute(feature, "tracktype"),
             p.default_track_surface_dict["grade3"])
    ELSE Get(p.default_highway_surface_dict, attribute(feature, "highway"),
             p.default_highway_surface_dict["path"])

\* the value of surface:bicycle, if it is usable
SurfaceBicycle(feature, p) ==
    LET surface_bicycle == attribute(feature, "surface:bicycle")
    IN  IF ~Truthy(surface_bicycle) THEN NULL
        ELSE IF surface_bicycle \in DOMAIN p.surface_factor_dict THEN surface_bicycle
        ELSE IF HasSemicolon(surface_bicycle)
        THEN getWeakestSurfaceValue(getDelimitedValues(surface_bicycle))
        ELSE NULL

\* a resolved surface value is kept only if the factor table knows it
SurfaceChecked(surface, p) == IF surface \in DOMAIN p.surface_factor_dict THEN surface ELSE NULL

derive_surface(feature, p) ==
    LET way_type == attribute(feature, "way_type")
        bicycle_value == SurfaceBicycle(feature, p)
        cycleway_surface == attribute(feature, "cycleway:surface")
        surface == attribute(feature, "surface")
        highway == attribute(feature, "highway")
        tagged == IF way_type = "segregated path" /\ Truthy(cycleway_surface)
                  THEN cycleway_surface ELSE surface
        default == IF way_type = "segregated path"
                   THEN Get(p.default_highway_surface_dict, highway,
                            Get(p.default_highway_surface_dict, "path", NULL))
                   ELSE get_default_surface(feature, way_type, p)
        used == IF Truthy(tagged) THEN tagged ELSE default
        data_missing ==
            IF way_type = "segregated path"
            THEN IF Truthy(cycleway_surface) THEN <<>> ELSE <<"surface">>
            ELSE IF Truthy(surface) THEN <<>> ELSE <<"surface">>
        weakest == IF HasSemicolon(used) THEN getWeakestSurfaceValue(getDelimitedValues(used))
                   ELSE used
    IN  IF Truthy(bicycle_value) THEN [value |-> bicycle_value, data_missing |-> <<>>,
                                       error |-> FALSE]
        ELSE IF used = NULL THEN [value |-> NULL, data_missing |-> data_missing, error |-> TRUE]
        ELSE [value |-> SurfaceChecked(weakest, p), data_missing |-> data_missing,
              error |-> FALSE]

derive_smoothness(feature, p) ==
    LET smoothness_bicycle == attribute(feature, "smoothness:bicycle")
        way_type == attribute(feature, "way_type")
        \* p.smoothness_factor_dict.get(smoothness_bicycle, NULL): a factor
        looked_up == Get(p.smoothness_factor_dict, smoothness_bicycle, NULLNUM)
        tagged == IF way_type = "segregated path"
                     /\ Truthy(attribute(feature, "cycleway:smoothness"))
                  THEN attribute(feature, "cycleway:smoothness")
                  ELSE attribute(feature, "smoothness")
    IN  IF TruthyN(looked_up)
        \* the factor is not a key of the table: the result is null
        THEN [value |-> NULL, data_missing |-> <<>>, error |-> FALSE]
        ELSE [value |-> IF tagged \in DOMAIN p.smoothness_factor_dict THEN tagged ELSE NULL,
              data_missing |-> IF Truthy(tagged) THEN <<>> ELSE <<"smoothness">>,
              error |-> FALSE]

\* ------------------------------------------------------------------ main loop: traffic context

TRAFFIC_MODES == {"motor_vehicle", "psv", "parking"}
SIDEPATH_TRACK_TYPES == {"cycle track", "shared path", "segregated path", "shared footway"}

\* the side of an un-suffixed separation / buffer value: the far side
\* is used only if it carries this traffic mode
FarSideModes == {"motor_vehicle"}

\* a parking lane lies on the side of the road the feature was offset to
ParkingOnSide(feature) ==
    LET parking == get_parking_status(feature)
        side == attribute(feature, "side")
    IN  \/ (side = "right" /\ Truthy(parking[2]) /\ parking[2] # "no")
        \/ (side = "left" /\ Truthy(parking[1]) /\ parking[1] # "no")

TrafficModes(feature, p) ==
    LET way_type == attribute(feature, "way_type")
        is_sidepath == attribute(feature, "proc_sidepath")
        both == attribute(feature, "traffic_mode:both")
        l0 == attribute(feature, "traffic_mode:left")
        r0 == attribute(feature, "traffic_mode:right")
        l1 == IF Truthy(both) /\ ~Truthy(l0) THEN both ELSE l0
        r1 == IF Truthy(both) /\ ~Truthy(r0) THEN both ELSE r0
        l2 == IF Truthy(l1) THEN l1
              ELSE IF way_type = "cycle path" THEN "no"
              ELSE IF way_type \in SIDEPATH_TRACK_TYPES /\ is_sidepath = "yes"
              THEN IF ParkingOnSide(feature) /\ r1 # "parking" THEN "parking"
                   ELSE "motor_vehicle"
              ELSE IF way_type \in CYCLE_LANE_TYPES
                      \/ way_type \in {"shared road", "shared traffic lane",
                                       "shared bus lane", "crossing"}
              THEN "motor_vehicle"
              ELSE l1
        r2 == IF Truthy(r1) THEN r1
              ELSE IF way_type = "cycle path" THEN "no"
              ELSE IF way_type = "crossing" THEN "motor_vehicle"
              ELSE IF way_type \in CYCLE_LANE_TYPES
              THEN IF ParkingOnSide(feature) /\ l2 # "parking" THEN "parking" ELSE "foot"
              ELSE IF way_type \in SIDEPATH_TRACK_TYPES /\ is_sidepath = "yes" THEN "foot"
              ELSE r1
    IN  IF way_type = "cycle lane (central)" THEN <<"motor_vehicle", "motor_vehicle">>
        ELSE <<l2, r2>>

\* the side next to the carriageway, and the other side (1: left, 2: right)
NearSide(p) == IF p.right_hand_traffic THEN 1 ELSE 2
FarSide(p) == IF p.right_hand_traffic THEN 2 ELSE 1

\* the un-suffixed separation goes to the near side if that carries motor
\* traffic, else to the far side if that carries a far side mode
UnsuffixedTo(i, empty, modes, p) ==
    \/ i = NearSide(p) /\ modes[NearSide(p)] \in TRAFFIC_MODES /\ empty[NearSide(p)]
    \/ i = FarSide(p) /\ modes[NearSide(p)] \notin TRAFFIC_MODES
       /\ modes[FarSide(p)] \in FarSideModes /\ empty[FarSide(p)]

SeparationSides(v, un, modes, p) ==
    [i \in {1, 2} |->
        IF Truthy(un) /\ UnsuffixedTo(i, <<~Truthy(v[1]), ~Truthy(v[2])>>, modes, p)
        THEN un
        ELSE IF Truthy(v[i]) THEN v[i] ELSE "no"]

Separations(feature, modes, p) ==
    IF attribute(feature, "way_type") = "cycle lane (central)" THEN <<NULL, NULL>>
    ELSE SeparationSides(
             split_both_values_to_left_right(attribute(feature, "separation:both"),
                                             attribute(feature, "separation:left"),
                                             attribute(feature, "separation:right")),
             attribute(feature, "separation"), modes, p)

BufferSides(v, un, modes, p) ==
    [i \in {1, 2} |->
        IF TruthyN(un) /\ UnsuffixedTo(i, <<~TruthyN(v[1]), ~TruthyN(v[2])>>, modes, p)
        THEN un ELSE v[i]]

Buffers(feature, modes, p) ==
    IF attribute(feature, "way_type") = "cycle lane (central)" THEN <<NULLNUM, NULLNUM>>
    ELSE BufferSides(split_both_numbers(getNumber(attribute(feature, "buffer:both")),
                                        getNumber(attribute(feature, "buffer:left")),
                                        getNumber(attribute(feature, "buffer:right"))),
                     getNumber(attribute(feature, "buffer")), modes, p)

\* ------------------------------------------------------------------ main loop: mandatory use

\* "entry in sign" for the traffic sign tokens of the model
SignContains(entry, sign) ==
    \/ entry = sign
    \/ <<entry, sign>> \in {<<"237", "DE:237">>, <<"240", "DE:240">>,
                            <<"1022-10", "DE:1022-10">>, <<"none", "DE:none">>}

RECURSIVE AnyInList(_, _)
AnyInList(list, sign) ==
    list # <<>> /\ (SignContains(Head(list), sign) \/ AnyInList(Tail(list), sign))

\* the loop with an assignment only while no token has matched
RECURSIVE MandatoryFromSignsFirst(_, _, _)
MandatoryFromSignsFirst(signs, proc_mandatory, p) ==
    IF signs = <<>> THEN proc_mandatory
    ELSE LET sign == Head(signs)
             m == IF proc_mandatory # NULL THEN proc_mandatory
                  ELSE IF AnyInList(p.mandatory_traffic_sign_list, sign) THEN "yes"
                  ELSE IF AnyInList(p.not_mandatory_traffic_sign_list, sign) THEN "no"
                  ELSE proc_mandatory
         IN  MandatoryFromSignsFirst(Tail(signs), m, p)

\* the loop with a mandatory sign that is never overwritten
RECURSIVE MandatoryFromSignsPriority(_, _, _)
MandatoryFromSignsPriority(signs, proc_mandatory, p) ==
    IF signs = <<>> THEN proc_mandatory
    ELSE LET sign == Head(signs)
             m == IF AnyInList(p.mandatory_traffic_sign_list, sign) \/ proc_mandatory = "yes"
                  THEN "yes"
                  ELSE IF AnyInList(p.not_mandatory_traffic_sign_list, sign) THEN "no"
                  ELSE proc_mandatory
         IN  MandatoryFromSignsPriority(Tail(signs), m, p)

\* the loop over the sign tokens of main: for every token first the not
\* mandatory list, then the mandatory list assigns
RECURSIVE MandatoryFromSigns(_, _, _)
MandatoryFromSigns(signs, proc_mandatory, p) ==
    IF signs = <<>> THEN proc_mandatory
    ELSE LET sign == Head(signs)
             m1 == IF AnyInList(p.not_mandatory_traffic_sign_list, sign)
                   THEN "no" ELSE proc_mandatory
             m2 == IF AnyInList(p.mandatory_traffic_sign_list, sign) THEN "yes" ELSE m1
         IN  MandatoryFromSigns(Tail(signs), m2, p)

MandatoryInline(feature, proc_oneway, p) ==
    LET way_type == attribute(feature, "way_type")
        cycleway == attribute(feature, "cycleway")
        cycleway_both == attribute(feature, "cycleway:both")
        cycleway_right == attribute(feature, "cycleway:right")
        bicycle == attribute(feature, "bicycle")
        traffic_sign == attribute(feature, "traffic_sign")
        lanes == {"lane", "share_busway"}
        m_shared ==
            IF bicycle \in {"use_sidepath", "optional_sidepath"} THEN bicycle
            ELSE IF cycleway \in lanes \/ cycleway_both \in lanes
                    \/ (YesIn(proc_oneway) /\ cycleway_right \in lanes)
            THEN "use_sidepath"
            ELSE IF cycleway = "track" \/ cycleway_both = "track"
                    \/ (YesIn(proc_oneway) /\ cycleway_right = "track")
            THEN "optional_sidepath"
            ELSE NULL
        m == IF way_type \in SHARED_ROAD_TYPES THEN m_shared
             ELSE IF attribute(feature, "proc_sidepath") = "yes" /\ Truthy(traffic_sign)
             THEN MandatoryFromSigns(getDelimitedValues(traffic_sign), NULL, p)
             ELSE NULL
    IN  IF attribute(feature, "highway") \in p.cycling_highway_prohibition_list
           \/ bicycle = "no"
        THEN "prohibited" ELSE m

\* the loop over the sign tokens of derive_mandatory_use: for every token the
\* not mandatory list assigns, and only otherwise (elif) the mandatory list
RECURSIVE HelperFromSigns(_, _, _)
HelperFromSigns(signs, proc_mandatory, p) ==
    IF signs = <<>> THEN proc_mandatory
    ELSE LET sign == Head(signs)
             m == IF AnyInList(p.not_mandatory_traffic_sign_list, sign) THEN "no"
                  ELSE IF AnyInList(p.mandatory_traffic_sign_list, sign) THEN "yes"
                  ELSE proc_mandatory
         IN  HelperFromSigns(Tail(signs), m, p)

\* derive_mandatory_use: <<proc_mandatory, traffic_sign>>
derive_mandatory_use(feature, way_type, proc_oneway, p) ==
    LET traffic_sign == attribute(feature, "traffic_sign")
        cycleway == attribute(feature, "cycleway")
        cycleway_both == attribute(feature, "cycleway:both")
        cycleway_right == attribute(feature, "cycleway:right")
        bicycle == attribute(feature, "bicycle")
        lanes == {"lane", "share_busway"}
        m_shared ==
            IF bicycle \in {"use_sidepath", "optional_sidepath"} THEN bicycle
            ELSE IF cycleway \in lanes \/ cycleway_both \in lanes
                    \/ (YesIn(proc_oneway) /\ cycleway_right \in lanes)
            THEN "use_sidepath"
            ELSE IF cycleway = "track" \/ cycleway_both = "track"
                    \/ (YesIn(proc_oneway) /\ cycleway_right = "track")
            THEN "optional_sidepath"
            ELSE NULL
        m == IF way_type \in SHARED_ROAD_TYPES THEN m_shared
             ELSE IF attribute(feature, "proc_sidepath") = "yes" /\ Truthy(traffic_sign)
             THEN HelperFromSigns(getDelimitedValues(traffic_sign), NULL, p)
             ELSE NULL
    IN  << IF attribute(feature, "highway") \in p.cycling_highway_prohibition_list
              \/ bicycle = "no"
           THEN "prohibited" ELSE m,
           traffic_sign >>

FilterUsable(proc_mandatory) == IF proc_mandatory \in {"prohibited", "use_sidepath"} THEN 0 ELSE 1

FilterWayType(way_type) ==
    IF way_type \in {"cycle path", "cycle track", "shared path", "segregated path",
                     "shared footway", "cycle lane (protected)"} THEN "separated"
    ELSE IF way_type \in {"cycle lane (advisory)", "cycle lane (exclusive)",
                          "cycle lane (central)", "link", "crossing"} THEN "cycle lanes"
    ELSE IF way_type = "bicycle road" THEN "bicycle road"
    ELSE IF way_type \in {"shared road", "shared traffic lane", "shared bus lane",
                          "track or service"} THEN "shared traffic"
    ELSE NULL

\* ------------------------------------------------------------------ main loop: factors

\* d.addDelimitedValue: appends a value to a delimited list unless it is there
addDelimitedValue(list, value) ==
    IF \E i \in 1..Len(list) : list[i] = value THEN list ELSE Append(list, value)

BaseIndex(feature, p) ==
    LET way_type == attribute(feature, "way_type")
        motor_vehicle_access == getAccess(feature, "motor_vehicle")
    IN  IF way_type \in SHARED_ROAD_TYPES
           /\ motor_vehicle_access \in DOMAIN p.motor_vehicle_access_index_dict
        THEN Num(p.motor_vehicle_access_index_dict[motor_vehicle_access])
        ELSE IF way_type \in DOMAIN p.base_index_dict THEN Num(p.base_index_dict[way_type])
        ELSE NULLNUM

AccessRestricted(feature, p) ==
    /\ attribute(feature, "way_type") \in SHARED_ROAD_TYPES
    /\ getAccess(feature, "motor_vehicle") \in DOMAIN p.motor_vehicle_access_index_dict

\* the width factor is computed as for a dedicated cycle way
WidthAsDedicated(feature) ==
    \/ attribute(feature, "way_type") \notin SHARED_TYPES
    \/ getAccess(feature, "motor_vehicle") = "no"

\* calc_width /= 1.6 unless the way is one-way
PerDirection(proc_width, proc_oneway) ==
    IF ~YesIn(proc_oneway) THEN NDiv(proc_width, TwoWayFactor) ELSE proc_width

\* max(calc_width - car + ((lane - calc_width) / 3), 0): car and lane are 2
\* and 4.5 on a shared traffic lane, 3 and 5.5 on a shared bus lane
CalcWidthLane(proc_width, car, lane) ==
    NMax(NAdd(NSub(proc_width, car), NDiv(NSub(lane, proc_width), Num(3))), Num(0))

CalcWidthFrom(feature, proc_width, per_direction) ==
    LET way_type == attribute(feature, "way_type")
    IN  IF ~TruthyN(proc_width) THEN proc_width
        ELSE IF WidthAsDedicated(feature) THEN per_direction
        ELSE IF way_type \in {"shared traffic lane", "shared bus lane"}
        THEN CalcWidthLane(proc_width,
                           IF way_type = "shared traffic lane" THEN Num(2) ELSE Num(3),
                           IF way_type = "shared traffic lane" THEN Rat(9, 2) ELSE Rat(11, 2))
        ELSE NSub(per_direction, Num(2))

\* calc_width: the width per direction that enters the logistic curve
CalcWidth(feature, proc_width, proc_oneway) ==
    CalcWidthFrom(feature, proc_width, PerDirection(proc_width, proc_oneway))

\* the two logistic curves of the width factor at the widths w = <<n, d>> that
\* the tags and defaults of the model give, rounded to 3 decimals, in
\* thousandths; a float that differs from w by the rounding errors of the
\* arithmetic has the same three rounded values:
\*   <<1.1 / (1 + 20 e^(-2.1 w)), the same pulled half way to 1,
\*     2 / (1 + 1.8 e^(-0.24 w))>>
FacWidthTable ==
    (<<1, 1000>> :> <<52, 526, 714>>) @@ (<<1, 30>> :> <<56, 528, 718>>) @@ (<<1, 12>> :> <<62, 531, 723>>) @@
    (<<1, 10>> :> <<64, 532, 725>>) @@ (<<1, 8>> :> <<67, 534, 728>>) @@ (<<1, 6>> :> <<73, 536, 733>>) @@
    (<<1, 5>> :> <<78, 539, 736>>) @@ (<<1, 4>> :> <<86, 543, 742>>) @@ (<<3, 10>> :> <<94, 547, 748>>) @@
    (<<5, 16>> :> <<97, 548, 749>>) @@ (<<1, 3>> :> <<101, 550, 751>>) @@ (<<2, 5>> :> <<114, 557, 759>>) @@
    (<<13, 30>> :> <<122, 561, 763>>) @@ (<<1, 2>> :> <<138, 569, 770>>) @@ (<<27, 50>> :> <<148, 574, 775>>) @@
    (<<13, 24>> :> <<148, 574, 775>>) @@ (<<14, 25>> :> <<153, 577, 777>>) @@ (<<17, 30>> :> <<155, 578, 778>>) @@
    (<<3, 5>> :> <<165, 582, 782>>) @@ (<<5, 8>> :> <<172, 586, 785>>) @@ (<<16, 25>> :> <<177, 588, 786>>) @@
    (<<7, 10>> :> <<196, 598, 793>>) @@ (<<17, 24>> :> <<199, 600, 794>>) @@ (<<3, 4>> :> <<214, 607, 799>>) @@
    (<<23, 30>> :> <<220, 610, 801>>) @@ (<<4, 5>> :> <<233, 616, 805>>) @@ (<<13, 16>> :> <<238, 619, 806>>) @@
    (<<5, 6>> :> <<246, 623, 809>>) @@ (<<9, 10>> :> <<274, 637, 816>>) @@ (<<11, 12>> :> <<281, 640, 818>>) @@
    (<<15, 16>> :> <<290, 645, 821>>) @@ (<<29, 30>> :> <<303, 652, 824>>) @@ (<<1, 1>> :> <<319, 659, 828>>) @@
    (<<11, 10>> :> <<368, 684, 840>>) @@ (<<9, 8>> :> <<381, 691, 842>>) @@ (<<7, 6>> :> <<404, 702, 847>>) @@
    (<<6, 5>> :> <<422, 711, 851>>) @@ (<<181, 150>> :> <<425, 713, 852>>) @@ (<<5, 4>> :> <<449, 725, 857>>) @@
    (<<4, 3>> :> <<496, 748, 867>>) @@ (<<41, 30>> :> <<515, 758, 871>>) @@ (<<11, 8>> :> <<520, 760, 872>>) @@
    (<<23, 16>> :> <<556, 778, 879>>) @@ (<<209, 150>> :> <<531, 765, 874>>) @@ (<<3, 2>> :> <<592, 796, 887>>) @@ (<<25, 16>> :> <<628, 814, 894>>) @@
    (<<47, 30>> :> <<630, 815, 895>>) @@ (<<19, 12>> :> <<640, 820, 896>>) @@ (<<8, 5>> :> <<649, 825, 898>>) @@
    (<<49, 30>> :> <<668, 834, 902>>) @@ (<<7, 4>> :> <<730, 865, 916>>) @@ (<<9, 5>> :> <<755, 878, 922>>) @@
    (<<11, 6>> :> <<772, 886, 926>>) @@ (<<46, 25>> :> <<775, 887, 927>>) @@ (<<15, 8>> :> <<791, 896, 931>>) @@
    (<<19, 10>> :> <<803, 901, 934>>) @@ (<<2, 1>> :> <<846, 923, 946>>) @@ (<<61, 30>> :> <<860, 930, 950>>) @@
    (<<103, 50>> :> <<870, 935, 953>>) @@ (<<13, 6>> :> <<908, 954, 966>>) @@ (<<337, 150>> :> <<933, 967, 976>>) @@
    (<<12, 5>> :> <<974, 987, 994>>) @@ (<<5, 2>> :> <<996, 998, 1006>>) @@ (<<64, 25>> :> <<1007, 1003, 1013>>) @@
    (<<27, 10>> :> <<1029, 1015, 1030>>) @@ (<<14, 5>> :> <<1042, 1021, 1042>>) @@ (<<45, 16>> :> <<1043, 1022, 1044>>) @@
    (<<17, 6>> :> <<1046, 1023, 1046>>) @@ (<<437, 150>> :> <<1054, 1027, 1056>>) @@ (<<89, 30>> :> <<1058, 1029, 1062>>) @@
    (<<3, 1>> :> <<1061, 1031, 1066>>) @@ (<<31, 10>> :> <<1068, 1034, 1078>>) @@ (<<78, 25>> :> <<1069, 1035, 1080>>) @@
    (<<25, 8>> :> <<1070, 1035, 1081>>) @@ (<<16, 5>> :> <<1074, 1037, 1090>>) @@ (<<7, 2>> :> <<1086, 1043, 1125>>) @@
    (<<109, 30>> :> <<1089, 1045, 1141>>) @@ (<<11, 3>> :> <<1090, 1045, 1145>>) @@ (<<15, 4>> :> <<1092, 1046, 1155>>) @@
    (<<113, 30>> :> <<1092, 1046, 1157>>) @@ (<<19, 5>> :> <<1093, 1046, 1161>>) @@ (<<96, 25>> :> <<1093, 1047, 1165>>) @@
    (<<4, 1>> :> <<1095, 1048, 1184>>) @@ (<<25, 6>> :> <<1097, 1048, 1203>>) @@ (<<21, 5>> :> <<1097, 1048, 1207>>) @@
    (<<17, 4>> :> <<1097, 1049, 1213>>) @@ (<<43, 10>> :> <<1097, 1049, 1219>>) @@ (<<22, 5>> :> <<1098, 1049, 1230>>) @@
    (<<9, 2>> :> <<1098, 1049, 1241>>) @@ (<<24, 5>> :> <<1099, 1050, 1275>>) @@ (<<29, 6>> :> <<1099, 1050, 1279>>) @@
    (<<5, 1>> :> <<1099, 1050, 1297>>) @@ (<<128, 25>> :> <<1100, 1050, 1310>>) @@ (<<26, 5>> :> <<1100, 1050, 1319>>) @@
    (<<157, 30>> :> <<1100, 1050, 1322>>) @@ (<<11, 2>> :> <<1100, 1050, 1351>>) @@ (<<59, 10>> :> <<1100, 1050, 1392>>) @@
    (<<6, 1>> :> <<1100, 1050, 1402>>) @@ (<<37, 6>> :> <<1100, 1050, 1419>>) @@ (<<31, 5>> :> <<1100, 1050, 1422>>) @@
    (<<25, 4>> :> <<1100, 1050, 1427>>) @@ (<<32, 5>> :> <<1100, 1050, 1442>>) @@ (<<36, 5>> :> <<1100, 1050, 1515>>) @@
    (<<221, 30>> :> <<1100, 1050, 1530>>) @@ (<<38, 5>> :> <<1100, 1050, 1550>>) @@ (<<8, 1>> :> <<1100, 1050, 1582>>) @@
    (<<241, 30>> :> <<1100, 1050, 1585>>) @@ (<<19, 2>> :> <<1100, 1050, 1689>>) @@ (<<48, 5>> :> <<1100, 1050, 1695>>) @@
    (<<10, 1>> :> <<1100, 1050, 1719>>) @@ (<<61, 6>> :> <<1100, 1050, 1729>>) @@ (<<54, 5>> :> <<1100, 1050, 1762>>) @@
    (<<64, 5>> :> <<1100, 1050, 1846>>) @@ (<<14, 1>> :> <<1100, 1050, 1882>>) @@ (<<159, 10>> :> <<1100, 1050, 1924>>) @@
    (<<16, 1>> :> <<1100, 1050, 1926>>) @@ (<<497, 30>> :> <<1100, 1050, 1935>>) @@ (<<118, 5>> :> <<1100, 1050, 1988>>) @@
    (<<128, 5>> :> <<1100, 1050, 1992>>)
FacWidthCurve(calc_width) == FacWidthTable[Exact(calc_width)]

\* the minimum width factor on shared roads and lanes
MinimumFactor == Rat(1, 4)

\* fac_width for calc_width = max(0.001, calc_width)
FacWidthAt(feature, calc_width, p) ==
    LET way_type == attribute(feature, "way_type")
        minimum_factor == IF WidthAsDedicated(feature) THEN Num(0) ELSE MinimumFactor
        curve == IF NLe(calc_width, Num(3)) \/ way_type \in SHARED_TYPES
                 THEN IF AccessRestricted(feature, p) THEN 2 ELSE 1
                 ELSE 3
    IN  RMax(minimum_factor, Rat(FacWidthCurve(calc_width)[curve], 1000))

\* fac_width: null when there is no calc_width, or when it is the float 0
FacWidthFrom(feature, calc_width, p) ==
    IF ~TruthyN(calc_width) THEN NULLNUM
    ELSE FacWidthAt(feature, NMax(Rat(1, 1000), calc_width), p)

FacWidth(feature, proc_width, proc_oneway, p) ==
    FacWidthFrom(feature, CalcWidth(feature, proc_width, proc_oneway), p)

\* fac_surface: the factor of the smoothness, else of the surface, else the
\* value the variable had before (UNBOUND before the first assignment)
FacSurface(proc_surface, proc_smoothness, carried, p) ==
    IF Truthy(proc_smoothness) /\ proc_smoothness \in DOMAIN p.smoothness_factor_dict
    THEN p.smoothness_factor_dict[proc_smoothness]
    ELSE IF Truthy(proc_surface) /\ proc_surface \in DOMAIN p.surface_factor_dict
    THEN p.surface_factor_dict[proc_surface]
    ELSE carried

FacHighway(proc_highway, p) ==
    IF Truthy(proc_highway) /\ proc_highway \in DOMAIN p.highway_factor_dict
    THEN p.highway_factor_dict[proc_highway] ELSE Num(1)

\* the loop over the thresholds of the maxspeed factor table, in table order
RECURSIVE MaxspeedLoop(_, _, _)
MaxspeedLoop(table, proc_maxspeed, fac_maxspeed) ==
    IF table = <<>> THEN fac_maxspeed
    ELSE MaxspeedLoop(Tail(table), proc_maxspeed,
                      IF RLe(Num(Head(table)[1]), proc_maxspeed)
                      THEN Head(table)[2] ELSE fac_maxspeed)

FacMaxspeed(proc_maxspeed, p) ==
    IF TruthyN(proc_maxspeed) THEN MaxspeedLoop(p.maxspeed_factor_dict, proc_maxspeed, Num(1))
    ELSE Num(1)

MaxspeedMissing(feature, proc_maxspeed) ==
    /\ ~TruthyN(proc_maxspeed)
    /\ attribute(feature, "way_type") # "track or service"
    /\ attribute(feature, "proc_sidepath") # "no"
    /\ attribute(feature, "proc_highway") \notin {"pedestrian", "service", "track"}

\* factor 1: width and surface, low values weigh more
Fac1(fac_width, fac_surface) ==
    LET ww == RAdd(RMax(RSub(Num(1), fac_width), Num(0)), Rat(1, 2))
        ws == RAdd(RMax(RSub(Num(1), fac_surface), Num(0)), Rat(1, 2))
    IN  IF TruthyN(fac_width) /\ TruthyN(fac_surface)
        THEN RDiv(RAdd(RMul(ww, fac_width), RMul(ws, fac_surface)), RAdd(ww, ws))
        ELSE IF TruthyN(fac_width) THEN fac_width
        ELSE IF TruthyN(fac_surface) THEN fac_surface
        ELSE Num(1)

\* factor 1 as the code computes it, on floats
Fac1Weight(fac) == FAdd[FMax[FSub[Float(Num(1)), fac], FZero], Float(Rat(1, 2))]

Fac1Mean(fac_width, fac_surface, weight_factor_width, weight_factor_surface) ==
    FDiv[FAdd[FMul[weight_factor_width, fac_width], FMul[weight_factor_surface, fac_surface]],
         FAdd[weight_factor_width, weight_factor_surface]]

Fac1Weighted(fac_width, fac_surface) ==
    Fac1Mean(fac_width, fac_surface, Fac1Weight(fac_width), Fac1Weight(fac_surface))

Fac1Float(fac_width, fac_surface) ==
    IF TruthyN(fac_width) /\ TruthyN(fac_surface)
    THEN Fac1Weighted(Float(fac_width), Float(fac_surface))
    ELSE IF TruthyN(fac_width) THEN Float(fac_width)
    ELSE IF TruthyN(fac_surface) THEN Float(fac_surface)
    ELSE Float(Num(1))

Fac2Weight(feature, p) ==
    LET way_type == attribute(feature, "way_type")
    IN  IF way_type \in {"shared path", "segregated path", "shared footway"}
           /\ attribute(feature, "proc_sidepath") # "yes"
        THEN Num(0)
        ELSE Get(p.highway_factor_dict_weights, way_type, Num(1))

\* factor 2: highway and maxspeed, weighted by the closeness to motor traffic
Fac2(fac_highway, fac_maxspeed, weight) ==
    LET f == RMul(fac_highway, fac_maxspeed)
        g == RAdd(f, RMul(RSub(Num(1), f), RSub(Num(1), weight)))
    IN  IF TruthyN(g) THEN g ELSE Num(1)

\* factor 2 as the code computes it, on floats
Fac2Or1(fac_2) == IF FTruthy(fac_2) THEN fac_2 ELSE Float(Num(1))

Fac2Weighted(fac_2, weight) ==
    Fac2Or1(FAdd[fac_2, FMul[FSub[Float(Num(1)), fac_2], FSub[Float(Num(1)), Float(weight)]]])

Fac2Float(fac_highway, fac_maxspeed, weight) ==
    Fac2Weighted(FMul[Float(fac_highway), Float(fac_maxspeed)], weight)

\* the malus for bicycle=permissive
PermissiveMalus == Rat(1, 5)

\* the dooring malus applies: parking with a buffer below 1 m on a side of a
\* cycle lane or of a sidepath
DooringApplies(feature, modes, buffers) ==
    LET way_type == attribute(feature, "way_type")
    IN  /\ \/ (modes[1] = "parking" /\ TruthyN(buffers[1]) /\ RLt(buffers[1], Num(1)))
           \/ (modes[2] = "parking" /\ TruthyN(buffers[2]) /\ RLt(buffers[2], Num(1)))
        /\ \/ way_type \in CYCLE_LANE_TYPES
           \/ (way_type \in {"cycle track", "shared path", "segregated path"}
               /\ attribute(feature, "proc_sidepath") = "yes")

\* the dooring malus raises: a buffer that enters the computation is null
DooringRaises(modes, buffers) ==
    \/ (modes[1] = "parking" /\ buffers[1] = NULLNUM)
    \/ (modes[2] = "parking" /\ buffers[2] = NULLNUM)

DooringDiff(modes, buffers) ==
    IF modes[1] = "parking" /\ modes[2] = "parking"
    THEN RDiv(RAbs(RSub(RDiv(RAdd(buffers[1], buffers[2]), Num(2)), Num(1))), Num(5))
    ELSE IF modes[2] = "parking" THEN RDiv(RAbs(RSub(buffers[2], Num(1))), Num(5))
    ELSE IF modes[1] = "parking" THEN RDiv(RAbs(RSub(buffers[1], Num(1))), Num(5))
    ELSE Num(0)

ColourBonus(feature) ==
    LET way_type == attribute(feature, "way_type")
        surface_colour == attribute(feature, "surface:colour")
    IN  /\ \/ way_type \in CYCLE_LANE_TYPES
           \/ way_type \in {"crossing", "shared bus lane", "link", "bicycle road"}
           \/ (way_type \in {"shared path", "segregated path"}
               /\ attribute(feature, "proc_sidepath") = "yes")
        /\ Truthy(surface_colour)
        /\ surface_colour \notin {"no", "none", "grey", "gray", "black"}

SharedLaneBonus(feature) ==
    /\ attribute(feature, "way_type") \in {"shared road", "shared traffic lane"}
    /\ AnyAttr(feature, CYCLEWAY_KEYS, {"shared_lane"})

CrossingBonus(feature) ==
    LET crossing == attribute(feature, "crossing")
        crossing_markings == attribute(feature, "crossing:markings")
    IN  IF attribute(feature, "way_type") # "crossing" THEN "none"
        ELSE IF crossing = "traffic_signals" THEN "signalled crossing"
        ELSE IF crossing \in {"marked", "zebra"}
                \/ (Truthy(crossing_markings) /\ crossing_markings # "no")
        THEN "marked crossing"
        ELSE "none"

\* factor group 4 without the dooring malus
Fac4Base(feature) ==
    LET way_type == attribute(feature, "way_type")
        a == IF SharedLaneBonus(feature) THEN Rat(1, 10) ELSE Num(0)
        b == IF ColourBonus(feature)
             THEN IF way_type = "crossing" THEN Rat(3, 20) ELSE Rat(1, 20)
             ELSE Num(0)
        c == IF CrossingBonus(feature) = "signalled crossing" THEN Rat(1, 5)
             ELSE IF CrossingBonus(feature) = "marked crossing" THEN Rat(1, 10)
             ELSE Num(0)
        d == IF attribute(feature, "lit") = "no" THEN Rat(1, 10) ELSE Num(0)
    IN  RSub(RAdd(RAdd(RAdd(Num(1), a), b), c), d)

Fac4(feature, modes, buffers) ==
    LET f1 == IF DooringApplies(feature, modes, buffers)
              THEN RSub(Fac4Base(feature), DooringDiff(modes, buffers))
              ELSE Fac4Base(feature)
    IN  IF attribute(feature, "bicycle") = "permissive" THEN RSub(f1, PermissiveMalus) ELSE f1

\* a step that the code takes under a condition: x += y, and x -= y
FAddIf(cond, x, y) == IF cond THEN FAdd[x, y] ELSE x
FSubIf(cond, x, y) == IF cond THEN FSub[x, y] ELSE x

\* factor group 4 as the code computes it, on floats: the bonuses and the
\* maluses are added to 1 and subtracted one after the other, the bonus for
\* a shared lane first and the malus for bicycle=permissive last
Fac4Float(feature, modes, buffers) ==
    FSubIf(attribute(feature, "bicycle") = "permissive",
      FSubIf(DooringApplies(feature, modes, buffers),
        FSubIf(attribute(feature, "lit") = "no",
          FAddIf(CrossingBonus(feature) = "marked crossing",
            FAddIf(CrossingBonus(feature) = "signalled crossing",
              FAddIf(ColourBonus(feature),
                FAddIf(SharedLaneBonus(feature), Float(Num(1)), Float(Rat(1, 10))),
                Float(IF attribute(feature, "way_type") = "crossing"
                      THEN Rat(3, 20) ELSE Rat(1, 20))),
              Float(Rat(1, 5))),
            Float(Rat(1, 10))),
          Float(Rat(1, 10))),
        IF modes[1] = "parking" /\ modes[2] = "parking"
        THEN FDiv[FAbs(FSub[FDiv[FAdd[Float(buffers[1]), Float(buffers[2])], Float(Num(2))],
                            Float(Num(1))]),
                  Float(Num(5))]
        ELSE IF modes[2] = "parking"
        THEN FDiv[FAbs(FSub[Float(buffers[2]), Float(Num(1))]), Float(Num(5))]
        ELSE IF modes[1] = "parking"
        THEN FDiv[FAbs(FSub[Float(buffers[1]), Float(Num(1))]), Float(Num(5))]
        ELSE FZero),
      Float(PermissiveMalus))

\* the upper clamp of the index
IndexCapMutant == Num(120)
IndexCap == Num(100)

\* the product of the base index and the factors as the code computes it,
\* on floats, clamped to the range of the index
IndexFloat(base_index, fac_1, fac_2, fac_3, fac_4) ==
    FMax[FMin[Float(IndexCap),
              FMul[FMul[FMul[FMul[Float(base_index), fac_1], fac_2], Float(fac_3)], fac_4]],
         FZero]

\* the index of the exact factors; float is the clamped product of the
\* floats of the code, which int(round(index)) rounds
Index(base_index, fac_1, fac_2, fac_3, fac_4, float) ==
    LET product == RMul(RMul(RMul(RMul(base_index, fac_1), fac_2), fac_3), fac_4)
        index == RMax(RMin(IndexCap, product), Num(0))
    IN  Round(index, float, 1)[1]

\* ------------------------------------------------------------------ main loop: stress level

\* the width from which an exclusive cycle lane has stress level 2
ExclusiveWidthMutant == Rat(3, 2)
ExclusiveWidth == Rat(37, 20)

StressLevel(feature, proc_oneway, proc_width, proc_maxspeed, p) ==
    LET way_type == attribute(feature, "way_type")
        proc_highway == attribute(feature, "proc_highway")
        priority_road == attribute(feature, "priority_road")
        slow(limit) == TruthyN(proc_maxspeed) /\ RLe(proc_maxspeed, Num(limit))
    IN  IF way_type \in {"cycle path", "cycle track", "segregated path",
                         "cycle lane (protected)"} THEN Num(1)
        ELSE IF way_type \in {"shared path", "shared footway"}
        THEN IF proc_oneway \notin {"yes", "-1"} /\ TruthyN(proc_width)
                /\ NLess(proc_width, Num(3)) /\ TruthyN(proc_maxspeed)
                /\ RLt(Num(30), proc_maxspeed)
             THEN Num(3) ELSE Num(1)
        ELSE IF way_type \in {"cycle lane (advisory)", "cycle lane (central)",
                              "shared bus lane", "link", "crossing"}
        THEN IF slow(10) THEN Num(1)
             ELSE IF slow(30) THEN Num(2)
             ELSE IF TruthyN(proc_width) /\ NLe(Rat(3, 2), proc_width) THEN Num(3)
             ELSE Num(4)
        ELSE IF way_type = "cycle lane (exclusive)"
        THEN IF slow(10) THEN Num(1)
             ELSE IF slow(50) /\ TruthyN(proc_width) /\ NLe(ExclusiveWidth, proc_width)
             THEN Num(2)
             ELSE Num(3)
        ELSE IF way_type \in {"bicycle road", "shared road", "shared traffic lane"}
        THEN IF way_type = "bicycle road"
                /\ getAccess(feature, "motor_vehicle") \in DOMAIN p.motor_vehicle_access_index_dict
             THEN Num(1)
             ELSE IF slow(10) /\ proc_highway \in {"residential", "living_street"}
                     /\ (~Truthy(priority_road) \/ priority_road = "no")
             THEN Num(1)
             ELSE IF slow(30) /\ proc_highway \in {"tertiary", "tertiary_link", "unclassified",
                                                    "road", "residential", "living_street"}
             THEN Num(2)
             ELSE Num(4)
        ELSE IF way_type = "track or service"
        THEN IF slow(10) THEN Num(1) ELSE Num(2)
        ELSE NULLNUM

\* ------------------------------------------------------------------ main loop: data completeness

RECURSIVE SumWeights(_, _)
SumWeights(values, dict) ==
    IF values = <<>> THEN 0
    ELSE Get(dict, Head(values), 0) + SumWeights(Tail(values), dict)

\* ------------------------------------------------------------------ step 4: attributes

\* what update_feature_attributes computes for a feature: the four resolved
\* attributes, the markers its resolvers raised, and whether one of them
\* ended in an exception
ResolveFrom(one_way, width, surface, smoothness) ==
    [ proc_oneway |-> one_way, proc_width |-> width.value,
      proc_surface |-> surface.value, proc_smoothness |-> smoothness.value,
      data_missing |-> width.data_missing \o surface.data_missing
                       \o smoothness.data_missing,
      error |-> width.error \/ surface.error ]

ResolveOneway(feature, one_way, p) ==
    ResolveFrom(one_way, calc_feature_width(feature, one_way, p), derive_surface(feature, p),
                derive_smoothness(feature, p))

Resolve(feature, p) == ResolveOneway(feature, derive_oneway_status(feature, p), p)

\* ------------------------------------------------------------------ step 5: index

\* "a < b" for two numbers of which one or both are the NULL object: what it
\* does rests with the Qt binding. Either the binding has no
\* ordering for NULL and the comparison raises TypeError, or it compares as
\* Qt does, and NULL is lower than every number and not lower than NULL.
NullOrders == {"raises", "lowest"}
LessRaises(a, b, order) == order = "raises" /\ (a = NULLNUM \/ b = NULLNUM)
Less(a, b) == b # NULLNUM /\ (a = NULLNUM \/ RLt(a, b))

\* the fields main writes up to the width factor
ScoreContext(feature, r, p) ==
    LET wt == attribute(feature, "way_type")
        modes == TrafficModes(feature, p)
        separations == Separations(feature, modes, p)
        buffers == Buffers(feature, modes, p)
        proc_mandatory == MandatoryInline(feature, r.proc_oneway, p)
    IN  [ proc_traffic_mode_left |-> modes[1], proc_traffic_mode_right |-> modes[2],
          proc_separation_left |-> separations[1], proc_separation_right |-> separations[2],
          proc_buffer_left |-> buffers[1], proc_buffer_right |-> buffers[2],
          proc_mandatory |-> proc_mandatory,
          proc_traffic_sign |-> attribute(feature, "traffic_sign"),
          filter_usable |-> Num(FilterUsable(proc_mandatory)),
          filter_way_type |-> FilterWayType(wt),
          base_index |-> BaseIndex(feature, p),
          fac_width |-> FacWidth(feature, r.proc_width, r.proc_oneway, p) ]

\* d.addDelimitedValue for every entry <<condition, value>> whose condition
\* holds, in the order of the entries
RECURSIVE AddAll(_, _)
AddAll(list, entries) ==
    IF entries = <<>> THEN list
    ELSE AddAll(IF Head(entries)[1] THEN addDelimitedValue(list, Head(entries)[2]) ELSE list,
                Tail(entries))

\* the bonus, malus and missing entries of the index section are made only
\* for a feature with a base index (if base_index != NULL)
IndexSection(base_index) == base_index # NULLNUM

\* the missing markers main collects, in the order of the code
ScoreMissing(feature, base_index) ==
    LET crossing == base_index # NULLNUM /\ attribute(feature, "way_type") = "crossing"
    IN  AddAll(<<>>,
          << <<MaxspeedMissing(feature, getNumber(attribute(feature, "proc_maxspeed"))),
               "maxspeed">>,
             <<crossing /\ ~Truthy(attribute(feature, "crossing")), "crossing">>,
             <<crossing /\ ~Truthy(attribute(feature, "crossing:markings")),
               "crossing_markings">>,
             <<base_index # NULLNUM /\ ~Truthy(attribute(feature, "lit")), "lit">> >>)

\* the fields main writes from the surface factor to factor 3
ScoreFactors(feature, c, fs, p) ==
    LET proc_maxspeed == getNumber(attribute(feature, "proc_maxspeed"))
        fac_highway == FacHighway(attribute(feature, "proc_highway"), p)
        fac_maxspeed == FacMaxspeed(proc_maxspeed, p)
        scored == c.base_index # NULLNUM
        fac_1 == Fac1(c.fac_width, fs)
        fac_2 == Fac2(fac_highway, fac_maxspeed, Fac2Weight(feature, p))
    IN  [ fac_surface |-> fs, fac_highway |-> fac_highway, fac_maxspeed |-> fac_maxspeed,
          data_missing_maxspeed |->
              IF MaxspeedMissing(feature, proc_maxspeed) THEN Num(1) ELSE NULLNUM,
          fac_1 |-> IF scored THEN Round2(fac_1, Fac1Float(c.fac_width, fs)) ELSE NULLNUM,
          fac_2 |-> IF scored
                    THEN Round2(fac_2, Fac2Float(fac_highway, fac_maxspeed,
                                                 Fac2Weight(feature, p)))
                    ELSE NULLNUM,
          fac_3 |-> IF scored THEN Num(1) ELSE NULLNUM,
          data_missing_lit |->
              IF scored /\ ~Truthy(attribute(feature, "lit")) THEN Num(1) ELSE NULLNUM ]

ScoreBonus(feature, c, fs, p) ==
    LET scored == IndexSection(c.base_index)
        fac_2 == Fac2(FacHighway(attribute(feature, "proc_highway"), p),
                      FacMaxspeed(getNumber(attribute(feature, "proc_maxspeed")), p),
                      Fac2Weight(feature, p))
    IN  AddAll(<<>>,
          << <<AccessRestricted(feature, p), "motor vehicle restricted">>,
             <<c.fac_width # NULLNUM /\ RLt(Num(1), c.fac_width), "wide width">>,
             <<RLt(Num(1), fs), "excellent surface">>,
             <<scored /\ RLe(Rat(1, 2), Fac2Weight(feature, p)) /\ RLt(Num(1), fac_2),
               "slow traffic">>,
             <<scored /\ SharedLaneBonus(feature), "shared lane markings">>,
             <<scored /\ ColourBonus(feature), "surface colour">>,
             <<scored /\ CrossingBonus(feature) # "none", CrossingBonus(feature)>> >>)

ScoreMalus(feature, c, fs, modes, buffers, p) ==
    LET scored == IndexSection(c.base_index)
        major == scored /\ RLe(Rat(1, 2), Fac2Weight(feature, p))
    IN  AddAll(<<>>,
          << <<TruthyN(c.fac_width) /\ RLe(c.fac_width, Rat(1, 2)), "narrow width">>,
             <<TruthyN(fs) /\ RLe(fs, Rat(1, 2)), "bad surface">>,
             <<major /\ RLe(FacHighway(attribute(feature, "proc_highway"), p), Rat(7, 10)),
               "along a major road">>,
             <<major /\ RLe(FacMaxspeed(getNumber(attribute(feature, "proc_maxspeed")), p),
                            Rat(7, 10)),
               "along a road with high speed limits">>,
             <<scored /\ attribute(feature, "lit") = "no", "no street lighting">>,
             <<scored /\ DooringApplies(feature, modes, buffers),
               "insufficient dooring buffer">>,
             <<scored /\ attribute(feature, "bicycle") = "permissive",
               "cycling not intended">> >>)

\* the fields main writes from factor 4 to the end of the loop body
ScoreIndex(feature, r, c, fs, p) ==
    LET modes == <<c.proc_traffic_mode_left, c.proc_traffic_mode_right>>
        buffers == <<c.proc_buffer_left, c.proc_buffer_right>>
        proc_maxspeed == getNumber(attribute(feature, "proc_maxspeed"))
        scored == c.base_index # NULLNUM
        fac_1 == Fac1(c.fac_width, fs)
        fac_2 == Fac2(FacHighway(attribute(feature, "proc_highway"), p),
                      FacMaxspeed(proc_maxspeed, p), Fac2Weight(feature, p))
        fac_4 == Fac4(feature, modes, buffers)
        float == IndexFloat(c.base_index, Fac1Float(c.fac_width, fs),
                            Fac2Float(FacHighway(attribute(feature, "proc_highway"), p),
                                      FacMaxspeed(proc_maxspeed, p), Fac2Weight(feature, p)),
                            Num(1), Fac4Float(feature, modes, buffers))
        index == Index(c.base_index, fac_1, fac_2, Num(1), fac_4, float)
        data_missing == ScoreMissing(feature, c.base_index)
    IN  [ fac_4 |-> IF scored THEN Round2(fac_4, Fac4Float(feature, modes, buffers))
                    ELSE NULLNUM,
          index |-> IF scored THEN Num(index) ELSE NULLNUM,
          index_10 |-> IF scored THEN Num(index \div 10) ELSE NULLNUM,
          data_missing |-> data_missing,
          data_bonus |-> ScoreBonus(feature, c, fs, p),
          data_malus |-> ScoreMalus(feature, c, fs, modes, buffers, p),
          stress_level |-> StressLevel(feature, r.proc_oneway, r.proc_width, proc_maxspeed, p),
          data_incompleteness |-> Num(SumWeights(data_missing, p.data_incompleteness_dict)) ]

\* the loop body of main raises for the feature: the comparison of a null
\* fac_width raises, fac_surface is read before it was ever assigned, or the
\* dooring malus computes with a null buffer
ScoreRaises(feature, r, carried, p, order) ==
    LET c == ScoreContext(feature, r, p)
        modes == <<c.proc_traffic_mode_left, c.proc_traffic_mode_right>>
        buffers == <<c.proc_buffer_left, c.proc_buffer_right>>
    IN  \/ LessRaises(Num(1), c.fac_width, order)
        \/ FacSurface(r.proc_surface, r.proc_smoothness, carried, p) = UNBOUND
        \/ /\ c.base_index # NULLNUM
           /\ DooringApplies(feature, modes, buffers)
           /\ DooringRaises(modes, buffers)

\* all the fields the loop body of main writes for the feature, given what
\* update_feature_attributes returned and the value fac_surface had before
ScoreFields(feature, r, carried, p) ==
    LET c == ScoreContext(feature, r, p)
        fs == FacSurface(r.proc_surface, r.proc_smoothness, carried, p)
    IN  ScoreIndex(feature, r, c, fs, p) @@ ScoreFactors(feature, c, fs, p) @@ c

\* ------------------------------------------------------------------ the fields of the layer

\* "key in list" for a list of the configuration
InList(list, key) == \E k \in DOMAIN list : list[k] = key

\* native:retainfields on one feature: the fields whose names are in the
\* list are kept, the others are removed
retain_fields(feature, fields) ==
    [key \in {k \in DOMAIN feature : InList(fields, k)} |-> feature[key]]

\* feature.setAttribute(field, value): a field that holds NULL is a field
\* without value
setAttribute(feature, key, value) ==
    IF value = NULL THEN [k \in DOMAIN feature \ {key} |-> feature[k]]
    ELSE (key :> value) @@ feature

\* a number as it is read back from a field of the layer
NumberTag(number) ==
    IF number = NULLNUM THEN NULL
    ELSE CHOOSE s \in DOMAIN NumberTable : NumberTable[s] = number

\* ------------------------------------------------------------------ step 1: sidepaths

PATH_HIGHWAYS == {"cycleway", "footway", "path", "bridleway", "steps"}

highway_class_list ==
    << "motorway", "motorway_link", "trunk", "trunk_link", "primary", "primary_link",
       "secondary", "secondary_link", "tertiary", "tertiary_link", "unclassified",
       "residential", "road", "living_street", "service", "pedestrian", NULL >>

determine_maxspeed(feature, hw) ==
    LET maxspeed == attribute(feature, "maxspeed")
    IN  IF maxspeed = "walk" \/ (~Truthy(maxspeed) /\ hw = "living_street") THEN Num(10)
        ELSE IF maxspeed = "none" THEN Num(299)
        ELSE getNumber(maxspeed)

\* The geometry of the ways is not modelled. The layers of the model are the
\* ways of one short street: every path gets two check points, its first
\* point and its end point, and the buffer of either reaches every road of
\* the layer.
CheckPoints == 2

\* the features of layer_path and of layer_roads
InLayerPath(feature) == attribute(feature, "highway") \in PATH_HIGHWAYS
InLayerRoads(feature) == attribute(feature, "highway") \notin PATH_HIGHWAYS \cup {"track"}

\* the roads a buffer of path i selects that are not skipped: the roads on
\* the level (tag layer) of the path
SelectedRoads(layer, i) ==
    {j \in DOMAIN layer :
        /\ InLayerRoads(layer[j])
        /\ attribute(layer[j], "layer") = attribute(layer[i], "layer")}

\* maxspeed_dict of one buffer after the roads before position j: for every
\* highway class the highest maxspeed of its roads
RECURSIVE BufferMaxspeed(_, _, _, _, _)
BufferMaxspeed(layer, roads, j, acc, order) ==
    IF j > Len(layer) \/ acc.raised THEN acc
    ELSE IF j \notin roads THEN BufferMaxspeed(layer, roads, j + 1, acc, order)
    ELSE LET road_highway == attribute(layer[j], "highway")
             road_maxspeed == getNumber(attribute(layer[j], "maxspeed"))
             known == road_highway \in DOMAIN acc.dict
         IN  BufferMaxspeed(layer, roads, j + 1,
                 IF known /\ LessRaises(acc.dict[road_highway], road_maxspeed, order)
                 THEN [acc EXCEPT !.raised = TRUE]
                 ELSE IF ~known \/ Less(acc.dict[road_highway], road_maxspeed)
                 THEN [acc EXCEPT !.dict = (road_highway :> road_maxspeed) @@ @]
                 ELSE acc,
                 order)

\* sidepath_dict[id] of path i after all its buffers: every road, highway
\* class and name found is counted get(item, 1) + 1 for the first buffer and
\* once more for every further one; first_name is the name of the first
\* road; every further buffer compares the maxspeed of a highway class with
\* the same maxspeed of the buffer before
SidepathDictEntry(layer, i, order) ==
    LET roads == SelectedRoads(layer, i)
        maxspeed == BufferMaxspeed(layer, roads, 1, [dict |-> <<>>, raised |-> FALSE],
                                   order)
        count == CheckPoints + 1
        first == CHOOSE j \in roads : \A k \in roads : j <= k
    IN  [ checks |-> CheckPoints,
          id |-> [j \in roads |-> count],
          highway |-> [h \in {attribute(layer[j], "highway") : j \in roads} |-> count],
          name |-> [n \in {attribute(layer[j], "name") : j \in roads} |-> count],
          first_name |-> IF roads = {} THEN NULL ELSE attribute(layer[first], "name"),
          maxspeed |-> maxspeed.dict,
          raised |->
              \/ maxspeed.raised
              \/ /\ CheckPoints > 1
                 /\ \E h \in DOMAIN maxspeed.dict :
                        LessRaises(maxspeed.dict[h], maxspeed.dict[h], order) ]

\* sum(key_dict.values()) >= (2/3) * checks, all values of key_dict being equal
check_sidepath(entry, key) ==
    IF 3 * Cardinality(DOMAIN entry[key]) * (CheckPoints + 1) >= 2 * entry.checks
    THEN "yes" ELSE "no"

update_feature_sidepath_status(feature, entry) ==
    LET tagged == IF attribute(feature, "footway") = "sidewalk" THEN "yes"
                  ELSE attribute(feature, "is_sidepath")
    IN  IF Truthy(tagged) THEN tagged
        ELSE IF \E key \in {"id", "highway", "name"} : check_sidepath(entry, key) = "yes"
        THEN "yes" ELSE "no"

\* highway_class_list.index(key)
ClassIndex(key) == CHOOSE k \in DOMAIN highway_class_list : highway_class_list[k] = key

update_feature_highway_class(feature, entry) ==
    LET is_sidepath_of == attribute(feature, "is_sidepath:of")
        max_keys == {key \in DOMAIN entry.highway : InList(highway_class_list, key)}
        last == Len(highway_class_list)
        min_index == IF \E key \in max_keys : ClassIndex(key) < last
                     THEN CHOOSE m \in 1..last :
                              /\ \E key \in max_keys : ClassIndex(key) = m
                              /\ \A key \in max_keys : ClassIndex(key) >= m
                     ELSE last
    IN  IF ~Truthy(is_sidepath_of) /\ DOMAIN entry.highway # {}
        THEN highway_class_list[min_index] ELSE is_sidepath_of

transfer_maxspeed(feature, entry) ==
    LET is_sidepath_of == attribute(feature, "proc_highway")
    IN  IF is_sidepath_of \in DOMAIN entry.maxspeed /\ TruthyN(entry.maxspeed[is_sidepath_of])
        THEN setAttribute(feature, "proc_maxspeed", NumberTag(entry.maxspeed[is_sidepath_of]))
        ELSE feature

transfer_sidepath_names(feature, entry) ==
    IF DOMAIN entry.name # {} /\ Truthy(entry.first_name)
    THEN setAttribute(feature, "name", entry.first_name)
    ELSE feature

\* the body of the loop of update_sidepath_attributes for feature i
SidepathAttributes(layer, i, order) ==
    LET feature == layer[i]
        hw == attribute(feature, "highway")
        entry == SidepathDictEntry(layer, i, order)
        is_sidepath == update_feature_sidepath_status(feature, entry)
        with_status == setAttribute(feature, "proc_sidepath", is_sidepath)
        with_class == setAttribute(with_status, "proc_highway",
                                   update_feature_highway_class(with_status, entry))
    IN  IF hw \notin PATH_HIGHWAYS \cup {"bridleway, track"}
        THEN setAttribute(setAttribute(feature, "proc_highway", hw), "proc_maxspeed",
                          NumberTag(determine_maxspeed(feature, hw)))
        ELSE IF ~InLayerPath(feature) THEN feature
        ELSE IF is_sidepath # "yes" THEN with_status
        ELSE transfer_sidepath_names(transfer_maxspeed(with_class, entry), entry)

\* the comparison of two maxspeeds raises while sidepath_dict is built
SidepathRaises(layer, order) ==
    \E i \in DOMAIN layer :
        InLayerPath(layer[i]) /\ SidepathDictEntry(layer, i, order).raised

\* ------------------------------------------------------------------ step 2: offsets

OFFSET_FIELDS ==
    {"offset_cycleway_left", "offset_cycleway_right", "offset_sidewalk_left",
     "offset_sidewalk_right"}

calculate_offset_cycleway(offset_distance, width) ==
    IF offset_distance = "realistic" THEN NDiv(width, Num(2)) ELSE getNumber(offset_distance)

calculate_offset_sidewalk(offset_distance, width) ==
    IF offset_distance = "realistic" THEN NAdd(NDiv(width, Num(2)), Num(2))
    ELSE getNumber(offset_distance)

\* the offsets update_offset_attributes writes for a feature; a field that
\* is not written stays null
OffsetAttributes(feature, p) ==
    LET highway == attribute(feature, "highway")
        tagged == getNumber(attribute(feature, "width"))
        width == IF p.offset_distance # "realistic" THEN Num(0)
                 ELSE IF TruthyN(tagged) THEN tagged
                 ELSE Get(p.default_highway_width_dict, highway,
                          p.default_highway_width_fallback)
        cycleway_conditions == {"lane", "track", "share_busway"}
        sidewalk_conditions == {"yes", "designated", "permissive"}
        cycleway(side) == AnyAttr(feature, {"cycleway", "cycleway:both", side},
                                  cycleway_conditions)
        sidewalk(side) == AnyAttr(feature, {"sidewalk:bicycle", "sidewalk:both:bicycle", side},
                                  sidewalk_conditions)
    IN  [ offset_cycleway_left |->
              IF cycleway("cycleway:left")
              THEN calculate_offset_cycleway(p.offset_distance, width) ELSE NULLNUM,
          offset_cycleway_right |->
              IF cycleway("cycleway:right")
              THEN calculate_offset_cycleway(p.offset_distance, width) ELSE NULLNUM,
          offset_sidewalk_left |->
              IF sidewalk("sidewalk:left:bicycle")
              THEN calculate_offset_sidewalk(p.offset_distance, width) ELSE NULLNUM,
          offset_sidewalk_right |->
              IF sidewalk("sidewalk:right:bicycle")
              THEN calculate_offset_sidewalk(p.offset_distance, width) ELSE NULLNUM ]

\* ------------------------------------------------------------------ the input layers

\* the tags of a feature with one more tag
With(tags, key, value) == (key :> value) @@ tags

PathShared == [highway |-> "path", segregated |-> "no", bicycle |-> "yes"]
PathInformal == [highway |-> "path", informal |-> "yes"]
\* (source is a tag the script does not read)
Footway == [highway |-> "footway", surface |-> "asphalt", source |-> "survey"]
NoAccess == [highway |-> "residential", bicycle |-> "no", surface |-> "asphalt"]

\* a separately mapped cycleway along a residential road
Sidepath ==
    With([highway |-> "cycleway", is_sidepath |-> "yes", lit |-> "yes"],
         "is_sidepath:of", "residential")
TrackKerb == With(Sidepath, "separation:left", "kerb")
TrackBollard == With(Sidepath, "separation:left", "bollard")
TrackTreeRow == With(Sidepath, "separation:both", "tree_row;flex_post")
TrackNone == With(With(Sidepath, "separation:left", "none"), "smoothness", "excellent")
TrackTram == With(With(Sidepath, "traffic_mode:left", "tram"), "width", "2")
TrackGravel == With(Sidepath, "surface:bicycle", "asphalt;gravel")
TrackUnlit ==
    With(With(With(TrackKerb, "lit", "no"), "bicycle", "permissive"), "surface", "asphalt")

\* a residential road with a cycle lane, and the lane offset to its right
Centre ==
    [highway |-> "residential", cycleway |-> "lane", oneway |-> "no", maxspeed |-> "30",
     surface |-> "asphalt"]
Lane == With(Centre, "side", "right")
LaneLeft == With(Centre, "side", "left")
LanePermissive == With(Lane, "bicycle", "permissive")
LaneSett == With(Lane, "surface", "sett")
LaneMud == With(Lane, "surface", "mud")
LaneMudPermissive == With(LaneMud, "bicycle", "permissive")

\* a wide, coloured, lit cycle lane in a slow street
LaneWide ==
    With(With([highway |-> "living_street", cycleway |-> "lane", oneway |-> "yes",
               side |-> "right", surface |-> "asphalt", smoothness |-> "excellent",
               lit |-> "yes", maxspeed |-> "20"],
              "cycleway:width", "4"), "surface:colour", "red")
LaneWidePermissive == With(LaneWide, "bicycle", "permissive")

\* cycle lanes along parking lanes
LaneDooring == With(With(Lane, "parking:right", "lane"), "buffer:right", "0.5")
LaneParkingBoth == With(With(Lane, "traffic_mode:both", "parking"), "buffer:left", "0.5")

RoadParking ==
    With([highway |-> "residential", name |-> "Main Street", width |-> "3",
          surface |-> "asphalt"], "parking:both", "lane")
\* a road of 2 m with parking lanes of 1.6 m and 0.4 m: as decimals they
\* leave no width, as floats 2 - 1.6 - 0.4 = -2^-53
RoadParkingNarrow ==
    With(With(With([highway |-> "residential", width |-> "2", surface |-> "asphalt",
                    maxspeed |-> "30"],
                   "parking:both", "lane"), "parking:right:width", "1.6"),
         "parking:left:width", "0.4")
Crossing == [highway |-> "cycleway", cycleway |-> "crossing", surface |-> "asphalt"]

\* a two-way street whose bus lane is open to cycling and closed to motor vehicles
BusLaneNarrow ==
    With(With([highway |-> "residential", cycleway |-> "share_busway", oneway |-> "no",
               side |-> "right", motor_vehicle |-> "no", surface |-> "asphalt",
               maxspeed |-> "30"],
              "width:lanes:forward", "3|0.5"), "width:lanes", "3|0.5")

FeatureDomain ==
    {PathShared, PathInformal, Footway, NoAccess, TrackKerb, TrackBollard, TrackTreeRow,
     TrackNone, TrackTram, TrackGravel, Centre, Lane, LaneLeft, LanePermissive, LaneSett, LaneMud,
     LaneMudPermissive, LaneWide, LaneWidePermissive, LaneDooring, LaneParkingBoth,
     RoadParking, Crossing}

\* the features whose surface factor differs or is not determined
SurfaceDomain == {Lane, LaneSett, LaneMud}

\* records that match several steps of the classification at once
BicycleRoadAll ==
    [highway |-> "footway", bicycle_road |-> "yes", footway |-> "link",
     cycleway |-> "crossing", surface |-> "asphalt"]
BicycleRoadSide == With(BicycleRoadAll, "side", "right")
LinkCrossing ==
    [highway |-> "path", path |-> "link", cycleway |-> "crossing", segregated |-> "yes",
     surface |-> "asphalt"]

\* a trunk road without lane markings, and the line offset to its right
TrunkCentre == [highway |-> "trunk", surface |-> "asphalt"]
TrunkSide == With(TrunkCentre, "side", "right")

\* a cycle lane whose surface and smoothness are tagged for bicycles apart
LaneForBicycles ==
    With(With(With(Lane, "surface:bicycle", "sett"), "smoothness:bicycle", "excellent"),
         "smoothness", "bad")

\* a cycle lane between two lanes for motor vehicles
LaneCentral == With(Lane, "cycleway:lanes", "no|lane|no")

\* a cycle track with pedestrians on its left and a bus lane on its right,
\* whose separation and buffer are tagged without a side
TrackPsvRight ==
    With(With(With(With(With(Sidepath, "traffic_mode:left", "foot"),
                        "traffic_mode:right", "psv"),
                   "separation", "kerb"), "buffer", "1"), "surface", "asphalt")

\* a residential road on a bridge over the other ways
RoadBridge == With(Centre, "layer", "1")

\* the features that are looked at on their own or in pairs
ExtraDomain ==
    {BusLaneNarrow, RoadParking, RoadParkingNarrow, TrackUnlit, BicycleRoadAll, BicycleRoadSide, LinkCrossing,
     TrunkCentre, TrunkSide, LaneForBicycles, LaneCentral, TrackPsvRight, RoadBridge}

\* cycle tracks along a road with several traffic signs, or with one sign
\* that a configuration may list as mandatory and as not mandatory
TrackSigned == With(TrackKerb, "surface", "asphalt")
TrackSignYesNo == With(TrackSigned, "traffic_sign", "237;1022-10")
TrackSignNoYes == With(TrackSigned, "traffic_sign", "1022-10;237")
TrackSignBoth == With(TrackSigned, "traffic_sign", "241")

\* a cycle lane between two parking lanes, with a narrow buffer on its left
\* and a wide one on its right
LaneParkingWide == With(LaneParkingBoth, "buffer:right", "10")

\* exclusive cycle lanes: wide or narrow in a street with 50 km/h, narrow
\* with 10 km/h, wide with 100 km/h
LaneExclusive == With(With(Lane, "cycleway:lane", "exclusive"), "maxspeed", "50")
LaneExclusiveWide == With(LaneExclusive, "cycleway:width", "2")
LaneExclusiveNarrow == With(LaneExclusive, "cycleway:width", "1.5")
LaneExclusiveSlow == With(LaneExclusiveNarrow, "maxspeed", "10")
LaneExclusiveFast == With(LaneExclusiveWide, "maxspeed", "100")

\* a trunk road without lane markings whose effective width is tagged
TrunkEffective == With(TrunkCentre, "width:effective", "4")

\* a cycle track without tagged width that is one-way against its direction
TrackBackward == With(TrackSigned, "oneway", "-1")

\* a wide cycleway of intermediate smoothness, for which factor 1 is 0.875
\* and the product of the index 87.5 in exact arithmetic
CyclewayHalf ==
    [highway |-> "cycleway", width |-> "6", surface |-> "asphalt",
     smoothness |-> "intermediate"]

\* the features of single cases, looked at on their own or in pairs
CaseDomain ==
    {TrackSignYesNo, TrackSignNoYes, TrackSignBoth, LaneParkingWide, LaneExclusiveWide,
     LaneExclusiveNarrow, LaneExclusiveSlow, LaneExclusiveFast, TrunkEffective,
     TrackBackward, CyclewayHalf}

\* the longest layer over FeatureDomain, over SurfaceDomain, over ExtraDomain
\* and over CaseDomain
MaxFeatures == 2
MaxSurfaces == 4
MaxExtras == 2
MaxCases == 2

SeqsUpTo(S, n) == UNION {[1..k -> S] : k \in 1..n}

\* layers in which a lane of unknown surface and the same lane with
\* bicycle=permissive each follow a lane of another surface
CarriedLayers ==
    {<<LaneSett, LaneMud, Lane, LaneMudPermissive>>,
     <<Lane, LaneMud, LaneSett, LaneMudPermissive>>}

Layers ==
    SeqsUpTo(FeatureDomain, MaxFeatures) \cup SeqsUpTo(SurfaceDomain, MaxSurfaces)
        \cup SeqsUpTo(ExtraDomain, MaxExtras) \cup SeqsUpTo(CaseDomain, MaxCases)
        \cup CarriedLayers

\* ------------------------------------------------------------------ models/features.py

\* the values of a properties dictionary: a string s is <<s>>, a float is a
\* rational <<n, d>>, None is <<>>
Str(s) == <<s>>
None == <<>>
IsStr(v) == Len(v) = 1

\* str(value).lower() for the values of the model
LowerTable == ("DE:rural" :> "de:rural") @@ ("Walk" :> "walk")
FloatRepr == (<<3, 1>> :> "3.0") @@ (<<30, 1>> :> "30.0")
StrOf(v) == IF IsStr(v) THEN v[1] ELSE FloatRepr[v]
Lower(s) == IF s \in DOMAIN LowerTable THEN LowerTable[s] ELSE s

\* float(re.match(r"(\d+\.?\d*)", s).group(1)): the number a string starts
\* with, None if it starts with none
LeadingNumberTable ==
    ("6.5 m" :> Rat(13, 2)) @@ ("3" :> Num(3)) @@ ("3.0" :> Num(3)) @@ ("2,5" :> Num(2)) @@
    ("30" :> Num(30)) @@ ("30.0" :> Num(30)) @@ ("50 mph" :> Num(50)) @@
    ("30;50" :> Num(30))
LeadingNumber(s) == IF s \in DOMAIN LeadingNumberTable THEN LeadingNumberTable[s] ELSE None

\* re.split(r"[;,]", s)[0] for the multi-values of the model
FirstValueTable ==
    ("30;50" :> "30") @@ ("50 mph;30" :> "50 mph") @@ ("fast,50" :> "fast") @@ ("2,5" :> "2")
IsMultiValue(s) == s \in DOMAIN FirstValueTable

\* float(s): the number, None where float raises ValueError
FloatTable == ("30" :> Num(30)) @@ ("2" :> Num(2)) @@ ("3" :> Num(3))
FloatOrNone(s) == IF s \in DOMAIN FloatTable THEN FloatTable[s] ELSE None

\* processed_data[key] = value
SetItem(dict, key, value) == (key :> value) @@ dict

\* the width step of from_geojson on the dictionary processed_data
ParseWidth(processed_data) ==
    IF "width" \in DOMAIN processed_data /\ processed_data["width"] # None
    THEN SetItem(processed_data, "width", LeadingNumber(StrOf(processed_data["width"])))
    ELSE processed_data

\* the maxspeed step of from_geojson on the dictionary processed_data
ParseMaxspeed(processed_data) ==
    IF "maxspeed" \in DOMAIN processed_data /\ processed_data["maxspeed"] # None
    THEN LET maxspeed_str == Lower(StrOf(processed_data["maxspeed"]))
         IN  SetItem(processed_data, "maxspeed",
                     IF maxspeed_str \in {"none", "no", "walk"} THEN None
                     ELSE IF maxspeed_str = "de:rural" THEN Num(50)
                     ELSE IF IsMultiValue(maxspeed_str)
                     THEN FloatOrNone(FirstValueTable[maxspeed_str])
                     ELSE LeadingNumber(maxspeed_str))
    ELSE processed_data

\* cls.model_validate raises without the required fields
ValidationRaises(processed_data) ==
    \E key \in {"id", "name", "highway"} :
        key \notin DOMAIN processed_data \/ ~IsStr(processed_data[key])

\* OSMProperties.from_geojson: the dictionary of the caller after the call,
\* the properties returned, and whether the call raised. processed_data is
\* the dictionary of the caller itself unless the highway is missing, and
\* only then a copy of it
OSMProperties_from_geojson(dict) ==
    LET copied == "highway" \notin DOMAIN dict
        with_highway == IF copied THEN SetItem(dict, "highway", Str("unknown")) ELSE dict
        processed_data == ParseMaxspeed(ParseWidth(with_highway))
    IN  [ data |-> IF copied THEN dict ELSE processed_data,
          result |-> IF ValidationRaises(processed_data) THEN None ELSE processed_data,
          raised |-> ValidationRaises(processed_data) ]

\* the dictionaries handed to from_geojson: with or without highway, width
\* and maxspeed, these with units, text, special and multiple values
BaseProperties == ("id" :> Str("w1")) @@ ("name" :> Str("Main Street"))
WidthValues ==
    {None, Str("6.5 m"), Str("3"), Str("2,5"), Str("narrow"), Num(3)}
MaxspeedValues ==
    {None, Str("30"), Str("none"), Str("Walk"), Str("DE:rural"), Str("30;50"),
     Str("50 mph;30"), Str("fast,50"), Str("50 mph"), Str("signals"), Num(30)}
Optional(key, values) == {<<>>} \cup {(key :> v) : v \in values}
RawProperties ==
    {h @@ w @@ m @@ BaseProperties :
        h \in Optional("highway", {Str("residential")}),
        w \in Optional("width", WidthValues),
        m \in Optional("maxspeed", MaxspeedValues)}

\* ------------------------------------------------------------------ io/loader.py

\* the features of a list are told apart by their position; a list of
\* features is the list of their ids

\* processed_dict = {feature.properties.id: feature for ...}: for every id
\* the last feature of the list with this id
RECURSIVE ProcessedDict(_, _, _)
ProcessedDict(processed, k, dict) ==
    IF k > Len(processed) THEN dict
    ELSE ProcessedDict(processed, k + 1, SetItem(dict, processed[k], k))

\* the loop of match_features over the OSM features from position k on:
\* matched_features and matched_ids; a missing counterpart is 0
RECURSIVE MatchLoop(_, _, _, _)
MatchLoop(osm, k, processed_dict, acc) ==
    IF k > Len(osm) THEN acc
    ELSE LET feature_id == osm[k]
             processed_feature == IF feature_id \in DOMAIN processed_dict
                                  THEN processed_dict[feature_id] ELSE 0
         IN  MatchLoop(osm, k + 1, processed_dict,
                       [ matched_features |->
                             SetItem(acc.matched_features, feature_id,
                                     [osm_feature |-> k,
                                      processed_feature |-> processed_feature]),
                         matched_ids |->
                             IF processed_feature # 0
                             THEN acc.matched_ids \cup {feature_id} ELSE acc.matched_ids ])

\* [f for f in list if f.properties.id not in matched_ids], from position k on
RECURSIVE Unmatched(_, _, _)
Unmatched(list, k, ids) ==
    IF k > Len(list) THEN <<>>
    ELSE IF list[k] \notin ids THEN <<k>> \o Unmatched(list, k + 1, ids)
    ELSE Unmatched(list, k + 1, ids)

\* match_features: the matched dictionary and the two lists of the unmatched
match_features_result(osm, processed) ==
    LET loop == MatchLoop(osm, 1, ProcessedDict(processed, 1, <<>>),
                          [matched_features |-> <<>>, matched_ids |-> {}])
    IN  [ matched_features |-> loop.matched_features,
          unmatched_osm |-> Unmatched(osm, 1, loop.matched_ids),
          unmatched_processed |-> Unmatched(processed, 1, loop.matched_ids) ]

\* the ids of the features and the longest lists handed to match_features
FeatureIds == {"w1", "w2"}
MaxOsm == 3
MaxProcessed == 3

\* ------------------------------------------------------------------ the layer

VARIABLES
    p,              \* the configuration (module parameter)
    features,       \* the features of the input layer as loaded: tag records
    fetched,        \* the features as the loops of main fetch them from the layer
    stored,         \* the values of the input fields as stored in the layer
    way_type,       \* the way_type field of every feature
    deleted,        \* the features deleted from the layer
    out,            \* the output fields of every feature
    fac_surface,    \* main's variable fac_surface, kept from feature to feature
    null_order,     \* what the comparison of NULL with a number does in this run:
                    \* one of NullOrders, "open" until the first such comparison
    resolved,       \* what update_feature_attributes returned for the current feature
    output,         \* the features of the layer written to the output file
    stage,          \* "load", "sidepath", "offset", "way_type", "attributes", "score",
                    \* "done", "saved", "error" or "sidepath_error";
                    \* in the loader "from_geojson", "match_features", "returned"
                    \* or "raised"
    cursor,         \* the position of the loop in the layer
    data,           \* the properties dictionary of the caller of from_geojson
    properties,     \* the OSMProperties that from_geojson returned
    osm_features,   \* the OSM features handed to match_features: their ids
    processed_features,     \* the processed features handed to match_features
    matched_features,       \* the dictionary match_features returned
    unmatched_osm,          \* the list of OSM features match_features returned
    unmatched_processed     \* the list of processed features it returned

layerVars ==
    <<p, features, fetched, stored, way_type, deleted, out, fac_surface, null_order,
      resolved, cursor, output>>
loaderVars ==
    <<data, properties, osm_features, processed_features, matched_features,
      unmatched_osm, unmatched_processed>>
vars == <<layerVars, stage, loaderVars>>

\* the output fields of a feature before anything is written
NoOutput ==
    [ offset_cycleway_left |-> NULLNUM, offset_cycleway_right |-> NULLNUM,
      offset_sidewalk_left |-> NULLNUM, offset_sidewalk_right |-> NULLNUM,
      proc_oneway |-> NULL, proc_width |-> NULLNUM, proc_surface |-> NULL,
      proc_smoothness |-> NULL,
      proc_traffic_mode_left |-> NULL, proc_traffic_mode_right |-> NULL,
      proc_separation_left |-> NULL, proc_separation_right |-> NULL,
      proc_buffer_left |-> NULLNUM, proc_buffer_right |-> NULLNUM,
      proc_mandatory |-> NULL, proc_traffic_sign |-> NULL,
      filter_usable |-> NULLNUM, filter_way_type |-> NULL,
      base_index |-> NULLNUM, fac_width |-> NULLNUM, fac_surface |-> NULLNUM,
      fac_highway |-> NULLNUM, fac_maxspeed |-> NULLNUM,
      fac_1 |-> NULLNUM, fac_2 |-> NULLNUM, fac_3 |-> NULLNUM, fac_4 |-> NULLNUM,
      index |-> NULLNUM, index_10 |-> NULLNUM, stress_level |-> NULLNUM,
      data_bonus |-> <<>>, data_malus |-> <<>>, data_missing |-> <<>>,
      data_incompleteness |-> NULLNUM,
      data_missing_width |-> NULLNUM, data_missing_surface |-> NULLNUM,
      data_missing_smoothness |-> NULLNUM, data_missing_maxspeed |-> NULLNUM,
      data_missing_lit |-> NULLNUM ]

NoResolved ==
    [ proc_oneway |-> NULL, proc_width |-> NULLNUM, proc_surface |-> NULL,
      proc_smoothness |-> NULL, data_missing |-> <<>>, error |-> FALSE ]

\* the fields of the layer after edit(layer) rolled the block of the loop
\* back: the offsets were written before it
rollBack ==
    [i \in DOMAIN out |-> [k \in OFFSET_FIELDS |-> out[i][k]] @@ NoOutput]

\* the feature the loop of main iterates over: the fields as fetched and the
\* way type
Feature(i) == ("way_type" :> way_type[i]) @@ fetched[i]

\* the next feature of the layer after position k that is not deleted
NextAlive(k, del) ==
    IF \E j \in (k + 1)..Len(features) : j \notin del
    THEN CHOOSE j \in (k + 1)..Len(features) :
             j \notin del /\ \A m \in (k + 1)..(j - 1) : m \in del
    ELSE Len(features) + 1

\* ------------------------------------------------------------------ preparation

\* main up to ensure_attributes: the layer keeps the fields of the list of
\* the configuration, the names of the new fields are appended to the list,
\* and the fields are added to the layer
prepare_fields ==
    /\ stage = "load"
    /\ stored' = [i \in DOMAIN features |-> retain_fields(features[i], p.attributes_list)]
    /\ fetched' = stored'
    /\ p' = [p EXCEPT !.attributes_list = @ \o new_attributes_dict]
    /\ stage' = "sidepath"
    /\ UNCHANGED <<features, way_type, deleted, out, fac_surface, null_order, resolved,
                   cursor, output>>
    /\ UNCHANGED loaderVars

\* ------------------------------------------------------------------ step 1: sidepaths

\* The orders a step of the run can find for NULL: the binding is the same
\* for the whole run, so the first comparison of NULL with a number settles
\* the order for the later ones. met: the step makes such a comparison.
NullOrder(met) == IF null_order = "open" /\ met THEN NullOrders ELSE {null_order}

\* the sidepath check of main and update_sidepath_attributes: the ids of the
\* features are their positions in the layer
update_sidepath_attributes ==
    /\ stage = "sidepath"
    /\ \E order \in NullOrder(SidepathRaises(stored, "raises")) :
           /\ null_order' = order
           /\ IF SidepathRaises(stored, order)
              THEN /\ stage' = "sidepath_error"
                   /\ UNCHANGED <<stored, fetched>>
              ELSE /\ stored' = [i \in DOMAIN stored |->
                                    SidepathAttributes(stored, i, order)]
                   /\ fetched' = stored'
                   /\ stage' = "offset"
    /\ UNCHANGED <<p, features, way_type, deleted, out, fac_surface, resolved, cursor,
                   output>>
    /\ UNCHANGED loaderVars

\* ------------------------------------------------------------------ step 2: offsets

\* update_offset_attributes; qgis_layers is empty, so that
\* update_offset_layer_attributes changes nothing, and main drops the layer
\* that merge_layers returns
update_offset_attributes ==
    /\ stage = "offset"
    /\ out' = [i \in DOMAIN out |-> OffsetAttributes(fetched[i], p) @@ out[i]]
    /\ stage' = "way_type"
    /\ UNCHANGED <<p, features, fetched, stored, way_type, deleted, fac_surface, null_order,
                   resolved, cursor, output>>
    /\ UNCHANGED loaderVars

\* ------------------------------------------------------------------ step 3: way types

update_way_type ==
    /\ stage = "way_type"
    /\ LET feature == fetched[cursor]
           drop == delete_if_no_access(feature) \/ delete_informal_paths(feature)
                   \/ determine_way_type_deletes(feature)
           del == IF drop THEN deleted \cup {cursor} ELSE deleted
       IN  /\ deleted' = del
           /\ way_type' = [way_type EXCEPT ![cursor] = determine_way_type(feature)]
           /\ IF cursor < Len(features)
              THEN /\ cursor' = cursor + 1
                   /\ stage' = stage
              ELSE /\ cursor' = NextAlive(0, del)
                   /\ stage' = IF NextAlive(0, del) > Len(features) THEN "done"
                               ELSE "attributes"
    /\ UNCHANGED <<p, features, fetched, stored, out, fac_surface, null_order, resolved,
                   output>>
    /\ UNCHANGED loaderVars

\* ------------------------------------------------------------------ step 4: attributes

RECURSIVE WriteMarkers(_, _)
\* for entry in data_missing: changeAttributeValue(field_ids.get(entry), 1)
WriteMarkers(fields, data_missing) ==
    IF data_missing = <<>> THEN fields
    ELSE WriteMarkers((Head(data_missing) :> "1") @@ fields, Tail(data_missing))

\* what the loop body of update_feature_attributes does with the values r
\* that it has computed for the feature
WriteResolved(r) ==
    IF r.error
    \* the exception leaves the edit block: the layer is rolled back
    THEN /\ out' = rollBack
         /\ stored' = fetched
         /\ stage' = "error"
         /\ UNCHANGED resolved
    ELSE /\ out' = [out EXCEPT ![cursor] =
                        [@ EXCEPT !.proc_oneway = r.proc_oneway,
                                  !.proc_width = r.proc_width,
                                  !.proc_surface = r.proc_surface,
                                  !.proc_smoothness = r.proc_smoothness]]
         /\ stored' = [stored EXCEPT ![cursor] = WriteMarkers(@, r.data_missing)]
         /\ resolved' = r
         /\ stage' = "score"

update_feature_attributes ==
    /\ stage = "attributes"
    /\ WriteResolved(Resolve(Feature(cursor), p))
    /\ UNCHANGED <<p, features, fetched, way_type, deleted, fac_surface, null_order, cursor,
                   output>>
    /\ UNCHANGED loaderVars

\* the rest of the loop body of main for the current feature
score ==
    /\ stage = "score"
    /\ LET feature == Feature(cursor)
           next == NextAlive(cursor, deleted)
           \* "if fac_width > 1" compares a null fac_width with a number
           met == ScoreContext(feature, resolved, p).fac_width = NULLNUM
       IN  \E order \in NullOrder(met) :
               /\ null_order' = order
               /\ IF ScoreRaises(feature, resolved, fac_surface, p, order)
                  \* the exception leaves the edit block: the layer is rolled back
                  THEN /\ out' = rollBack
                       /\ stored' = fetched
                       /\ stage' = "error"
                       /\ UNCHANGED <<fac_surface, cursor>>
                  ELSE /\ out' = [out EXCEPT ![cursor] =
                                      ScoreFields(feature, resolved, fac_surface, p) @@ @]
                       /\ fac_surface' = FacSurface(resolved.proc_surface,
                                                    resolved.proc_smoothness, fac_surface, p)
                       /\ UNCHANGED stored
                       /\ cursor' = next
                       /\ stage' = IF next > Len(features) THEN "done" ELSE "attributes"
    /\ UNCHANGED <<p, features, fetched, way_type, deleted, resolved, output>>
    /\ UNCHANGED loaderVars

\* ------------------------------------------------------------------ step 5: the output

\* the value of a field of feature i of the layer; the id of a feature is
\* its position in the layer as loaded
FieldValue(i, key) ==
    IF key = "id" THEN i
    ELSE IF key = "way_type" THEN way_type[i]
    ELSE IF key \in DOMAIN out[i] THEN out[i][key]
    ELSE attribute(stored[i], key)

\* the positions of the features left in the layer, in order
RECURSIVE Alive(_)
Alive(k) ==
    IF k > Len(features) THEN <<>>
    ELSE IF k \in deleted THEN Alive(k + 1)
    ELSE <<k>> \o Alive(k + 1)

\* the end of main: the layer written to the file keeps the fields of
\* p.attributes_list_finally_retained that the layer has
save ==
    /\ stage = "done"
    /\ LET kept == {key \in {p.attributes_list_finally_retained[k] :
                                 k \in DOMAIN p.attributes_list_finally_retained} :
                        InList(p.attributes_list, key)}
           alive == Alive(1)
       IN  output' = [n \in DOMAIN alive |-> [key \in kept |-> FieldValue(alive[n], key)]]
    /\ stage' = "saved"
    /\ UNCHANGED <<p, features, fetched, stored, way_type, deleted, out, fac_surface,
                   null_order, resolved, cursor>>
    /\ UNCHANGED loaderVars

\* the loader is not run
LoaderIdle ==
    /\ data = None /\ properties = None
    /\ osm_features = <<>> /\ processed_features = <<>> /\ matched_features = <<>>
    /\ unmatched_osm = <<>> /\ unmatched_processed = <<>>

\* the script is not run
LayerIdle ==
    /\ p = CfgA /\ features = <<>> /\ fetched = <<>> /\ stored = <<>> /\ way_type = <<>>
    /\ deleted = {} /\ out = <<>> /\ fac_surface = UNBOUND /\ null_order = "open"
    /\ resolved = NoResolved
    /\ cursor = 1 /\ output = <<>>

\* the layer as loaded, before the way types are determined
Init ==
    /\ p \in Configs
    /\ features \in Layers
    /\ fetched = features
    /\ stored = features
    /\ output = <<>>
    /\ way_type = [i \in 1..Len(features) |-> NULL]
    /\ deleted = {}
    /\ out = [i \in 1..Len(features) |-> NoOutput]
    /\ fac_surface = UNBOUND
    /\ null_order = "open"
    /\ resolved = NoResolved
    /\ stage = "load"
    /\ cursor = 1
    /\ LoaderIdle

Next ==
    \/ prepare_fields
    \/ update_sidepath_attributes
    \/ update_offset_attributes
    \/ update_way_type
    \/ update_feature_attributes
    \/ score
    \/ save

Spec == Init /\ [][Next]_vars

\* ------------------------------------------------------------------ the loader

\* a call of OSMProperties.from_geojson on the dictionary of the caller
from_geojson ==
    /\ stage = "from_geojson"
    /\ LET r == OSMProperties_from_geojson(data)
       IN  /\ data' = r.data
           /\ properties' = r.result
           /\ stage' = IF r.raised THEN "raised" ELSE "returned"
    /\ UNCHANGED layerVars
    /\ UNCHANGED <<osm_features, processed_features, matched_features, unmatched_osm,
                   unmatched_processed>>

\* before the call of from_geojson
InitParse ==
    /\ LayerIdle
    /\ stage = "from_geojson"
    /\ data \in RawProperties
    /\ properties = None
    /\ osm_features = <<>> /\ processed_features = <<>> /\ matched_features = <<>>
    /\ unmatched_osm = <<>> /\ unmatched_processed = <<>>

NextParse == from_geojson

SpecParse == InitParse /\ [][NextParse]_vars

\* a call of match_features
match_features ==
    /\ stage = "match_features"
    /\ LET r == match_features_result(osm_features, processed_features)
       IN  /\ matched_features' = r.matched_features
           /\ unmatched_osm' = r.unmatched_osm
           /\ unmatched_processed' = r.unmatched_processed
    /\ stage' = "returned"
    /\ UNCHANGED layerVars
    /\ UNCHANGED <<data, properties, osm_features, processed_features>>

\* before the call of match_features
InitMatch ==
    /\ LayerIdle
    /\ stage = "match_features"
    /\ data = None /\ properties = None
    /\ osm_features \in {<<>>} \cup SeqsUpTo(FeatureIds, MaxOsm)
    /\ processed_features \in {<<>>} \cup SeqsUpTo(FeatureIds, MaxProcessed)
    /\ matched_features = <<>>
    /\ unmatched_osm = <<>> /\ unmatched_processed = <<>>

NextMatch == match_features

SpecMatch == InitMatch /\ [][NextMatch]_vars

\* ------------------------------------------------------------------ properties

\* update_way_type has passed feature i
WayTyped(i) ==
    \/ stage \in {"attributes", "score", "done", "saved", "error"}
    \/ (stage = "way_type" /\ i < cursor)

\* the loop body of main has completed for feature i
Scored(i) ==
    stage \in {"attributes", "score", "done", "saved"} /\ i \notin deleted /\ i < cursor

\* C1: after the scoring step index is null or an integer from 0 to 100,
\* index_10 is index // 10 whenever index is not null, and index is null
\* exactly when base_index is null; the integer is the rounded float of the
\* code, 87 where the exact product is 87.5 and the float lies below it
C1_IndexRange ==
    \A i \in DOMAIN out :
        Scored(i) =>
            /\ (out[i].index = NULLNUM) <=> (out[i].base_index = NULLNUM)
            /\ out[i].index # NULLNUM =>
                   /\ out[i].index[2] = 1
                   /\ out[i].index[1] \in 0..100
                   /\ out[i].index_10 = Num(out[i].index[1] \div 10)
                   /\ out[i].index_10[1] \in 0..10
            /\ (features[i] = CyclewayHalf /\ way_type[i] = "cycle path") =>
                   out[i].fac_1 = Rat(87, 100) /\ out[i].index = Num(87)

\* a layer with a feature whose index is clamped to 100 and a feature without
\* base index, both scored
C1_Witness ==
    \E i, j \in DOMAIN out :
        /\ Scored(i) /\ out[i].index = Num(100) /\ out[i].index_10 = Num(10)
        /\ Scored(j) /\ out[j].base_index = NULLNUM /\ out[j].index = NULLNUM

\* C2: two features of a layer with the same tags get the same outputs,
\* whatever was processed before them
C2_SameTagsSameOutputs ==
    \A i, j \in DOMAIN out :
        (Scored(i) /\ Scored(j) /\ features[i] = features[j]) => out[i] = out[j]

\* C3: update_feature_attributes leaves the stored values of the raw tags
\* width, surface and smoothness as they were loaded
C3_RawTagsUnchanged ==
    \A i \in DOMAIN stored :
        \A k \in {"width", "width:lanes", "surface", "smoothness"} :
            attribute(stored[i], k) = attribute(fetched[i], k)

\* C4: an informal path without bicycle tag is dropped, and a dropped feature
\* is excluded from the further stages and is never given a way type
C4_DroppedHasNoWayType ==
    /\ \A i \in DOMAIN fetched :
           (/\ WayTyped(i)
            /\ attribute(fetched[i], "highway") = "path"
            /\ attribute(fetched[i], "informal") = "yes"
            /\ attribute(fetched[i], "bicycle") = NULL) => i \in deleted
    /\ \A i \in deleted :
           /\ way_type[i] = NULL
           /\ \A k \in DOMAIN NoOutput \ OFFSET_FIELDS : out[i][k] = NoOutput[k]

\* C5: the traffic modes written are members of the enumeration, the surface
\* and smoothness written are null or keys of their factor tables, and the
\* width written is null or positive
C5_ValidatedFields ==
    \A i \in DOMAIN out :
        Scored(i) =>
            /\ out[i].proc_traffic_mode_left
                   \in {"motor_vehicle", "psv", "parking", "foot", "bicycle", "no", NULL}
            /\ out[i].proc_traffic_mode_right
                   \in {"motor_vehicle", "psv", "parking", "foot", "bicycle", "no", NULL}
            /\ out[i].proc_surface \in DOMAIN p.surface_factor_dict \cup {NULL}
            /\ out[i].proc_smoothness \in DOMAIN p.smoothness_factor_dict \cup {NULL}
            /\ out[i].proc_width = NULLNUM \/ NLess(Num(0), out[i].proc_width)

\* the values of a list
Range(list) == {list[k] : k \in DOMAIN list}

RECURSIVE SumDistinct(_, _)
\* the sum of the configured weights over a set of markers
SumDistinct(markers, dict) ==
    IF markers = {} THEN 0
    ELSE LET m == CHOOSE x \in markers : TRUE
         IN  Get(dict, m, 0) + SumDistinct(markers \ {m}, dict)

\* C6: data_incompleteness is the sum of the weights of the distinct markers
\* raised for the feature by the resolvers and by the scorer steps, so a
\* feature with a defaulted width and a width weight has a non-zero value
C6_IncompletenessCountsAllMarkers ==
    \A i \in DOMAIN out :
        Scored(i) =>
            LET raised == Range(Resolve(Feature(i), p).data_missing)
                              \cup Range(out[i].data_missing)
            IN  /\ out[i].data_incompleteness
                       = Num(SumDistinct(raised, p.data_incompleteness_dict))
                /\ ("width" \in raised /\ Get(p.data_incompleteness_dict, "width", 0) # 0)
                       => out[i].data_incompleteness # Num(0)

\* the number of entries of a list that equal a value
Count(list, value) == Cardinality({k \in DOMAIN list : list[k] = value})

\* C7: a path with segregated=no and bicycle=yes and no width, oneway or side
\* tag is a shared path; it resolves to proc_oneway 'no' and to the default
\* width of a path times 1.6, with exactly one 'width' marker
C7_SharedPathDefaultWidth ==
    \A i \in DOMAIN features :
        features[i] = PathShared =>
            /\ WayTyped(i) => way_type[i] = "shared path"
            /\ (stage = "score" /\ cursor = i) =>
                   /\ resolved.proc_oneway = "no"
                   /\ out[i].proc_oneway = "no"
                   /\ out[i].proc_width
                          = RMul(p.default_highway_width_dict["path"], Rat(8, 5))
                   /\ Count(resolved.data_missing, "width") = 1
                   /\ Count(calc_feature_width(Feature(i), "no", p).data_missing, "width") = 1

\* update_feature_attributes has resolved such a path
C7_Witness ==
    /\ stage = "score"
    /\ features[cursor] = PathShared
    /\ way_type[cursor] = "shared path"
    /\ out[cursor].proc_width = Rat(16, 5)
    /\ resolved.data_missing = <<"width", "surface", "smoothness">>

\* a cycleway beside a road, without foot access and without a foot separation 'no'
SidepathCycleway(feature) ==
    /\ attribute(feature, "highway") = "cycleway"
    /\ attribute(feature, "foot") = NULL
    /\ deriveSeparation(feature, "foot") # "no"
    /\ attribute(feature, "is_sidepath") = "yes"
    /\ attribute(feature, "bicycle_road") = NULL
    /\ ~AnyAttr(feature, LINK_ATTRIBUTES \cup CROSSING_ATTRIBUTES, {"link", "crossing"})

\* C8: a sidepath cycleway is a cycle track when its motor vehicle separation
\* contains kerb or tree_row, a protected cycle lane when the separation is
\* another value outside null, 'no' and 'none', and a cycle track when it is
\* null, 'no' or 'none'; separation:left=kerb gives a cycle track
C8_SidepathBySeparation ==
    \A i \in DOMAIN features :
        (WayTyped(i) /\ SidepathCycleway(fetched[i])) =>
            LET sep == deriveSeparation(fetched[i], "motor_vehicle")
            IN  /\ (SeparationContains("kerb", sep) \/ SeparationContains("tree_row", sep))
                       => way_type[i] = "cycle track"
                /\ (sep \notin {NULL, "no", "none"} /\ ~SeparationContains("kerb", sep)
                        /\ ~SeparationContains("tree_row", sep))
                       => way_type[i] = "cycle lane (protected)"
                /\ sep \in {NULL, "no", "none"} => way_type[i] = "cycle track"
                /\ attribute(fetched[i], "separation:left") = "kerb"
                       => way_type[i] = "cycle track"

\* a layer with a kerb-separated and a bollard-separated sidepath, both classified
C8_Witness ==
    \E i, j \in DOMAIN features :
        /\ WayTyped(i) /\ features[i] = TrackKerb /\ way_type[i] = "cycle track"
        /\ WayTyped(j) /\ features[j] = TrackBollard
        /\ way_type[j] = "cycle lane (protected)"

\* C9 as stated: the road with cycleway=lane and no side is an advisory cycle lane
C9_LaneTagsAlone ==
    \A i \in DOMAIN features :
        (WayTyped(i) /\ features[i] = Centre) => way_type[i] = "cycle lane (advisory)"

\* C9: the road with cycleway=lane, oneway=no, maxspeed=30 and surface=asphalt
\* is an advisory cycle lane when the record carries a side, and a shared
\* road when it carries none
C9_LaneNeedsSide ==
    \A i \in DOMAIN features :
        WayTyped(i) =>
            /\ features[i] = Centre => way_type[i] = "shared road"
            /\ features[i] \in {Lane, LaneLeft}
                   => way_type[i] = "cycle lane (advisory)"

\* a layer with the road and with its right-hand lane, both classified
C9_Witness ==
    \E i, j \in DOMAIN features :
        /\ WayTyped(i) /\ features[i] = Centre /\ way_type[i] = "shared road"
        /\ WayTyped(j) /\ features[j] = Lane /\ way_type[j] = "cycle lane (advisory)"

\* two scored records of the layer that differ only in bicycle=permissive,
\* both a cycle lane with a base index
PermissivePair(i, j) ==
    /\ Scored(i) /\ Scored(j)
    /\ "bicycle" \notin DOMAIN features[i]
    /\ features[j] = With(features[i], "bicycle", "permissive")
    /\ way_type[i] \in CYCLE_LANE_TYPES /\ way_type[j] \in CYCLE_LANE_TYPES
    /\ out[i].base_index # NULLNUM /\ out[j].base_index # NULLNUM

\* C10: of two records that differ only in bicycle=permissive, both a cycle
\* lane with a base index, the permissive one has fac_4 exactly 0.2 lower,
\* 'cycling not intended' in data_malus, and a strictly lower index
C10_PermissiveStrictlyLower ==
    \A i, j \in DOMAIN out :
        PermissivePair(i, j) =>
            /\ RSub(out[i].fac_4, out[j].fac_4) = Rat(1, 5)
            /\ "cycling not intended" \in Range(out[j].data_malus)
            /\ RLt(out[j].index, out[i].index)

\* C11: fac_width, where it is not null, lies between 0 and 2, and
\* on the shared way types it is never below 0.25, whatever the motor vehicle
\* access
C11_WidthFactorRange ==
    \A i \in DOMAIN out :
        (Scored(i) /\ out[i].fac_width # NULLNUM) =>
            /\ RLe(Num(0), out[i].fac_width) /\ RLe(out[i].fac_width, Num(2))
            /\ way_type[i] \in SHARED_TYPES => RLe(Rat(1, 4), out[i].fac_width)

\* C12: a feature without base index gets no factor and no bonus or
\* malus entry, index and index_10 are null, and the stress level and the
\* data incompleteness are still computed
C12_NoBaseIndexNoFactors ==
    \A i \in DOMAIN out :
        (Scored(i) /\ out[i].base_index = NULLNUM) =>
            /\ out[i].fac_width = NULLNUM /\ out[i].fac_surface = NULLNUM
            /\ out[i].fac_highway = NULLNUM /\ out[i].fac_maxspeed = NULLNUM
            /\ out[i].fac_1 = NULLNUM /\ out[i].fac_2 = NULLNUM
            /\ out[i].fac_3 = NULLNUM /\ out[i].fac_4 = NULLNUM
            /\ out[i].data_bonus = <<>> /\ out[i].data_malus = <<>>
            /\ out[i].index = NULLNUM /\ out[i].index_10 = NULLNUM
            /\ out[i].stress_level # NULLNUM
            /\ out[i].data_incompleteness # NULLNUM

\* C13: the processing of a feature never ends in an exception
C13_NoException == stage # "error"

\* C14: no table or list of the configuration is modified during a run: p has
\* the value it was loaded with
C14_ConfigurationUnchanged == p \in Configs

\* C15: the first matching step of the classification wins: bicycle_road=yes
\* without side is a bicycle road whatever the other tags, otherwise a 'link'
\* value of footway, cycleway, path or bridleway makes a link even beside a
\* 'crossing' value, before any step on the highway class; the way type is
\* always one of the 16 way types
C15_FirstMatchWins ==
    \A i \in DOMAIN features :
        WayTyped(i) =>
            LET bicycle_road == /\ attribute(fetched[i], "bicycle_road") = "yes"
                                /\ ~Truthy(attribute(fetched[i], "side"))
                link == \E k \in {"footway", "cycleway", "path", "bridleway"} :
                            attribute(fetched[i], k) = "link"
            IN  /\ way_type[i] \in WAY_TYPES
                /\ Cardinality(WAY_TYPES) = 16
                /\ bicycle_road => way_type[i] = "bicycle road"
                /\ (~bicycle_road /\ link) => way_type[i] = "link"

\* a layer with a footway that is a bicycle road, a link and a crossing at
\* once, and with a path that is a link and a crossing at once, both classified
C15_Witness ==
    \E i, j \in DOMAIN features :
        /\ WayTyped(i) /\ features[i] = BicycleRoadAll /\ way_type[i] = "bicycle road"
        /\ WayTyped(j) /\ features[j] = LinkCrossing /\ way_type[j] = "link"

\* the record matches none of the steps before the choice between a shared
\* traffic lane and a shared road
FallsThrough(feature) ==
    /\ attribute(feature, "bicycle_road") # "yes"
    /\ ~AnyAttr(feature, LINK_ATTRIBUTES \cup CROSSING_ATTRIBUTES, {"link", "crossing"})
    /\ attribute(feature, "highway")
           \notin SHARED_FOOTWAY_HIGHWAYS \cup {"path", "cycleway", "service", "track"}
    /\ attribute(feature, "type") # "sidewalk"
    /\ ~AnyAttr(feature, CYCLEWAY_KEYS, {"lane", "track", "share_busway"})
    /\ ~AnyAttr(feature, {"sidewalk:bicycle", "sidewalk:both:bicycle",
                          "sidewalk:left:bicycle", "sidewalk:right:bicycle"}, {"yes"})

\* C16: an offset line that matches none of the cycleway and sidewalk rules
\* gets the same way type as the centre line with the same tags; a trunk road
\* without lane markings is a shared traffic lane in both
C16_SameTestWithSide ==
    \A i, j \in DOMAIN features :
        ( /\ WayTyped(i) /\ WayTyped(j)
          /\ FallsThrough(fetched[i])
          /\ attribute(fetched[j], "side") = NULL
          /\ \E side \in {"left", "right"} : features[i] = With(features[j], "side", side) )
        => /\ way_type[i] = way_type[j]
           /\ attribute(fetched[j], "highway") \in {"trunk", "motorway"}
                  => way_type[i] = "shared traffic lane"

\* update_feature_attributes has returned for feature i
Resolved(i) == stage = "score" /\ cursor = i

\* C17: a smoothness:bicycle (surface:bicycle) value that the factor table
\* knows becomes proc_smoothness (proc_surface), whatever the other tags say,
\* and no marker is raised for it
C17_BicycleValueWins ==
    \A i \in DOMAIN features :
        Resolved(i) =>
            LET smoothness_bicycle == attribute(fetched[i], "smoothness:bicycle")
                surface_bicycle == attribute(fetched[i], "surface:bicycle")
            IN  /\ smoothness_bicycle \in DOMAIN p.smoothness_factor_dict
                       => /\ resolved.proc_smoothness = smoothness_bicycle
                          /\ out[i].proc_smoothness = smoothness_bicycle
                          /\ "smoothness" \notin Range(resolved.data_missing)
                /\ surface_bicycle \in DOMAIN p.surface_factor_dict
                       => /\ resolved.proc_surface = surface_bicycle
                          /\ out[i].proc_surface = surface_bicycle
                          /\ "surface" \notin Range(resolved.data_missing)

\* the tag a resolver ends up using: the cycleway: one on a segregated path
\* if it is there, else the plain one
UsedTag(feature, key) ==
    IF attribute(feature, "way_type") = "segregated path"
           /\ Truthy(attribute(feature, "cycleway:" \o key))
    THEN attribute(feature, "cycleway:" \o key)
    ELSE attribute(feature, key)

\* C18: for a feature without a bicycle-specific value, a surface (smoothness)
\* tag that is present and not in the factor table resolves to null with a
\* 'surface' ('smoothness') marker, and a marker is raised only where the tag
\* was absent or not in the table
C18_UnrecognizedIsMarked ==
    \A i \in DOMAIN features :
        ( /\ Resolved(i)
          /\ attribute(fetched[i], "surface:bicycle") = NULL
          /\ attribute(fetched[i], "smoothness:bicycle") = NULL )
        => LET surface == UsedTag(Feature(i), "surface")
               smoothness == UsedTag(Feature(i), "smoothness")
               markers == Range(resolved.data_missing)
           IN  /\ (Truthy(surface) /\ ~HasSemicolon(surface)
                       /\ surface \notin DOMAIN p.surface_factor_dict)
                      => (resolved.proc_surface = NULL /\ "surface" \in markers)
               /\ (Truthy(smoothness) /\ smoothness \notin DOMAIN p.smoothness_factor_dict)
                      => (resolved.proc_smoothness = NULL /\ "smoothness" \in markers)
               /\ "surface" \in markers
                      => (~Truthy(surface) \/ surface \notin DOMAIN p.surface_factor_dict)
               /\ "smoothness" \in markers
                      => (~Truthy(smoothness)
                              \/ smoothness \notin DOMAIN p.smoothness_factor_dict)

\* C19: every scored feature of every way type, 'cycle lane (central)'
\* included, has a proc_separation_left and a proc_separation_right that are
\* not null: a side without a resolved separation carries the value 'no'.
C19_SeparationNeverNull ==
    \A i \in DOMAIN features :
        Scored(i) => /\ out[i].proc_separation_left # NULL
                     /\ out[i].proc_separation_right # NULL

\* the side an un-suffixed separation or buffer tag belongs to by the traffic
\* modes of the two sides: the side next to the carriageway if it carries
\* motor vehicles, buses or parking, else the other side if that does, else none
VehicleSide(modes, right_hand_traffic) ==
    LET near == IF right_hand_traffic THEN 1 ELSE 2
        far == IF right_hand_traffic THEN 2 ELSE 1
    IN  IF modes[near] \in {"motor_vehicle", "psv", "parking"} THEN near
        ELSE IF modes[far] \in {"motor_vehicle", "psv", "parking"} THEN far
        ELSE 0

\* C20: an un-suffixed separation (buffer) tag of a scored feature is the value
\* of exactly the side that carries motor_vehicle, psv or parking traffic, the
\* side next to the carriageway first, if that side has no value of its own or
\* from the 'both' tag; every other side keeps its own value.
C20_UnsuffixedToVehicleSide ==
    \A i \in DOMAIN features :
        Scored(i) =>
            LET feature == Feature(i)
                modes == <<out[i].proc_traffic_mode_left, out[i].proc_traffic_mode_right>>
                target == VehicleSide(modes, p.right_hand_traffic)
                sep == <<out[i].proc_separation_left, out[i].proc_separation_right>>
                buf == <<out[i].proc_buffer_left, out[i].proc_buffer_right>>
                s_un == attribute(feature, "separation")
                s_own == split_both_values_to_left_right(
                             attribute(feature, "separation:both"),
                             attribute(feature, "separation:left"),
                             attribute(feature, "separation:right"))
                b_un == getNumber(attribute(feature, "buffer"))
                b_own == split_both_numbers(getNumber(attribute(feature, "buffer:both")),
                                            getNumber(attribute(feature, "buffer:left")),
                                            getNumber(attribute(feature, "buffer:right")))
            IN  /\ Truthy(s_un) =>
                       \A k \in {1, 2} :
                           sep[k] = IF k = target /\ ~Truthy(s_own[k]) THEN s_un
                                    ELSE IF Truthy(s_own[k]) THEN s_own[k] ELSE "no"
                /\ TruthyN(b_un) =>
                       \A k \in {1, 2} :
                           buf[k] = IF k = target /\ ~TruthyN(b_own[k]) THEN b_un
                                    ELSE b_own[k]

\* the sign token matches an entry of the mandatory / not mandatory list
Mand(sign) == \E e \in Range(p.mandatory_traffic_sign_list) : SignContains(e, sign)
NotMand(sign) == \E e \in Range(p.not_mandatory_traffic_sign_list) : SignContains(e, sign)

\* the sign tokens of feature i
Signs(i) == getDelimitedValues(attribute(fetched[i], "traffic_sign"))

\* feature i is a scored sidepath of a way type outside the shared group, not
\* prohibited for cycling, whose signs match both lists
SignedBothWays(i) ==
    /\ Scored(i)
    /\ way_type[i] \notin {"bicycle road", "shared road", "shared traffic lane",
                           "track or service"}
    /\ attribute(fetched[i], "proc_sidepath") = "yes"
    /\ Truthy(attribute(fetched[i], "traffic_sign"))
    /\ out[i].proc_mandatory # "prohibited"
    /\ \E k \in DOMAIN Signs(i) : Mand(Signs(i)[k])
    /\ \E k \in DOMAIN Signs(i) : NotMand(Signs(i)[k])

\* C21 as stated: with sign tokens that match both lists, proc_mandatory is
\* the value the first matching token assigns first, and later matching
\* tokens do not change it
C21_FirstMatchingSign ==
    \A i \in DOMAIN features :
        SignedBothWays(i) =>
            LET signs == Signs(i)
                first == CHOOSE k \in DOMAIN signs :
                             /\ Mand(signs[k]) \/ NotMand(signs[k])
                             /\ \A j \in 1..(k - 1) : ~Mand(signs[j]) /\ ~NotMand(signs[j])
            IN  out[i].proc_mandatory = IF NotMand(signs[first]) THEN "no" ELSE "yes"

\* C21: with sign tokens that match both lists, proc_mandatory is the value
\* of the last matching token in tag order, 'yes' if that token matches the
\* mandatory list and 'no' otherwise; earlier matching tokens do not count
C21_LastMatchingSign ==
    \A i \in DOMAIN features :
        SignedBothWays(i) =>
            LET signs == Signs(i)
                last == CHOOSE k \in DOMAIN signs :
                            /\ Mand(signs[k]) \/ NotMand(signs[k])
                            /\ \A j \in (k + 1)..Len(signs) :
                                   ~Mand(signs[j]) /\ ~NotMand(signs[j])
            IN  out[i].proc_mandatory = IF Mand(signs[last]) THEN "yes" ELSE "no"

\* a cycle track signed 237 and then 1022-10 is scored as not mandatory, and
\* a track with the one sign 241 of both lists as mandatory
C21_Witness ==
    /\ \E i \in DOMAIN features :
           /\ SignedBothWays(i) /\ features[i] = TrackSignYesNo
           /\ out[i].proc_mandatory = "no"
    /\ \E i \in DOMAIN features :
           /\ SignedBothWays(i) /\ features[i] = TrackSignBoth
           /\ out[i].proc_mandatory = "yes"

\* C22: a sidepath with two sign tokens, one matching only the mandatory list
\* and the other only the not mandatory list, is mandatory ('yes') if the
\* mandatory token is the second one and not mandatory ('no') if it is the first
C22_LastOfTwoWins ==
    \A i \in DOMAIN features :
        (/\ Scored(i)
         /\ attribute(fetched[i], "proc_sidepath") = "yes"
         /\ way_type[i] \notin {"bicycle road", "shared road", "shared traffic lane",
                                "track or service"}
         /\ out[i].proc_mandatory # "prohibited"
         /\ Truthy(attribute(fetched[i], "traffic_sign"))
         /\ Len(Signs(i)) = 2)
        => /\ (/\ Mand(Signs(i)[1]) /\ ~NotMand(Signs(i)[1])
               /\ NotMand(Signs(i)[2]) /\ ~Mand(Signs(i)[2]))
              => out[i].proc_mandatory = "no"
           /\ (/\ NotMand(Signs(i)[1]) /\ ~Mand(Signs(i)[1])
               /\ Mand(Signs(i)[2]) /\ ~NotMand(Signs(i)[2]))
              => out[i].proc_mandatory = "yes"

\* a layer with both orders of the signs 237 and 1022-10 is scored: the track
\* with 237 last is mandatory, the other is not
C22_Witness ==
    /\ stage = "done"
    /\ \E i, j \in DOMAIN features :
           /\ features[i] = TrackSignNoYes /\ out[i].proc_mandatory = "yes"
           /\ features[j] = TrackSignYesNo /\ out[j].proc_mandatory = "no"

\* C28: derive_mandatory_use returns for every scored feature, with its way
\* type and its proc_oneway, the proc_mandatory that main has written
C28_HelperAgreesWithInline ==
    \A i \in DOMAIN features :
        Scored(i) =>
            derive_mandatory_use(Feature(i), way_type[i], out[i].proc_oneway, p)[1]
                = out[i].proc_mandatory

\* the thresholds of the configured maxspeed table that a speed reaches
ReachedThresholds(speed) ==
    {e[1] : e \in {x \in Range(p.maxspeed_factor_dict) : RLe(Num(x[1]), speed)}}

\* C23: fac_maxspeed of a scored feature is the factor of the highest
\* threshold of the maxspeed table that is not above proc_maxspeed, in
\* whatever order the table lists its thresholds, and 1 when proc_maxspeed is
\* absent or below every threshold
C23_HighestThresholdWins ==
    \A i \in DOMAIN features :
        Scored(i) =>
            LET speed == getNumber(attribute(fetched[i], "proc_maxspeed"))
                reached == IF TruthyN(speed) THEN ReachedThresholds(speed) ELSE {}
                highest == CHOOSE t \in reached : \A u \in reached : u <= t
                entry == CHOOSE e \in Range(p.maxspeed_factor_dict) : e[1] = highest
            IN  out[i].fac_maxspeed = IF reached = {} THEN Num(1) ELSE entry[2]

\* what the dooring malus has taken from fac_4 of feature i
DooringTaken(i) ==
    RSub(IF attribute(fetched[i], "bicycle") = "permissive"
         THEN RSub(Fac4Base(Feature(i)), Rat(1, 5)) ELSE Fac4Base(Feature(i)),
         out[i].fac_4)

\* C24: where the malus 'insufficient dooring buffer' is applied, the amount
\* taken from fac_4 lies between 0 and 0.2 and is (1 - b) / 5 for the buffer
\* b < 1 of a side with parking, also with parking on both sides and only one
\* buffer below 1 m
C24_DooringMalusAmount ==
    \A i \in DOMAIN features :
        (Scored(i) /\ "insufficient dooring buffer" \in Range(out[i].data_malus)) =>
            LET modes == <<out[i].proc_traffic_mode_left, out[i].proc_traffic_mode_right>>
                buffers == <<out[i].proc_buffer_left, out[i].proc_buffer_right>>
            IN  /\ RLe(Num(0), DooringTaken(i)) /\ RLe(DooringTaken(i), Rat(1, 5))
                /\ \E k \in {1, 2} :
                       /\ modes[k] = "parking"
                       /\ TruthyN(buffers[k]) /\ RLt(buffers[k], Num(1))
                       /\ DooringTaken(i) = RDiv(RSub(Num(1), buffers[k]), Num(5))

\* C25: an exclusive cycle lane has stress level 1 if proc_maxspeed is known
\* and at most 10, else 2 if proc_maxspeed is known and at most 50 and
\* proc_width is known and at least 1.85, else 3; and every scored feature
\* with a way type of the enumeration has a stress level from 1 to 4
C25_StressLevelExclusive ==
    \A i \in DOMAIN features :
        Scored(i) =>
            LET speed == getNumber(attribute(fetched[i], "proc_maxspeed"))
                width == out[i].proc_width
            IN  /\ way_type[i] = "cycle lane (exclusive)" =>
                       out[i].stress_level =
                           IF speed # NULLNUM /\ RLe(speed, Num(10)) THEN Num(1)
                           ELSE IF /\ speed # NULLNUM /\ RLe(speed, Num(50))
                                   /\ width # NULLNUM /\ RLe(Rat(185, 100), width)
                           THEN Num(2)
                           ELSE Num(3)
                /\ way_type[i] \in WAY_TYPES =>
                       out[i].stress_level \in {Num(1), Num(2), Num(3), Num(4)}

\* a layer of two exclusive cycle lanes in a street with 50 km/h is scored: the
\* lane of 2 m has stress level 2 and the lane of 1.5 m stress level 3
C25_Witness ==
    /\ stage = "done"
    /\ \E i, j \in DOMAIN features :
           /\ features[i] = LaneExclusiveWide /\ way_type[i] = "cycle lane (exclusive)"
           /\ out[i].proc_width = Num(2) /\ out[i].stress_level = Num(2)
           /\ features[j] = LaneExclusiveNarrow /\ way_type[j] = "cycle lane (exclusive)"
           /\ out[j].proc_width = Rat(3, 2) /\ out[j].stress_level = Num(3)

\* the width of the lane that the width:lanes tags of feature i give for
\* cycling, null without a usable tag
ParsedLaneWidth(i) ==
    LET oneway == YesIn(out[i].proc_oneway)
        bus == way_type[i] = "shared bus lane"
        side == attribute(fetched[i], "side")
        all == attribute(fetched[i], "width:lanes")
        forward == attribute(fetched[i], "width:lanes:forward")
        backward == attribute(fetched[i], "width:lanes:backward")
    IN  IF way_type[i] \notin {"shared traffic lane", "shared bus lane"} THEN NULLNUM
        ELSE IF (oneway \/ ~bus) /\ HasBar(all) THEN getNumber(LastLaneTable[all])
        ELSE IF bus /\ ~oneway /\ side = "right" /\ HasBar(forward)
        THEN getNumber(LastLaneTable[forward])
        ELSE IF bus /\ ~oneway /\ side = "left" /\ HasBar(backward)
        THEN getNumber(LastLaneTable[backward])
        ELSE NULLNUM

\* x is the decimal number y, up to the rounding errors of the float
\* arithmetic that computed it
SameDecimal(x, y) == x # NULLNUM /\ Exact(x) = y

\* C26: proc_width of a scored feature of a shared way type is the lane width
\* parsed from its width:lanes tags if there is one, else its width:effective
\* if tagged, else its lanes times the default lane width if width is not
\* tagged; so a shared traffic lane without usable width:lanes and with
\* width:effective has proc_width = width:effective
C26_WidthPrecedenceShared ==
    \A i \in DOMAIN features :
        (Scored(i) /\ way_type[i] \in {"shared road", "shared traffic lane",
                                       "shared bus lane", "bicycle road",
                                       "track or service"}) =>
            LET lane == ParsedLaneWidth(i)
                effective == getNumber(attribute(fetched[i], "width:effective"))
                width == getNumber(attribute(fetched[i], "width"))
                lanes == getNumber(attribute(fetched[i], "lanes"))
            IN  IF TruthyN(lane) THEN out[i].proc_width = lane
                ELSE IF TruthyN(effective) THEN out[i].proc_width = effective
                ELSE (~TruthyN(width) /\ TruthyN(lanes)) =>
                         SameDecimal(out[i].proc_width,
                                     RMul(lanes, p.default_width_traffic_lane))

\* C27: for a scored feature of a dedicated way type without tagged width,
\* the width per direction that enters the width factor is the configured
\* default width of its way type, whatever its proc_oneway is
C27_DefaultWidthPerDirection ==
    \A i \in DOMAIN features :
        (/\ Scored(i)
         /\ way_type[i] \in {"cycle path", "cycle track", "shared path", "shared footway",
                              "crossing", "link", "cycle lane (advisory)",
                              "cycle lane (exclusive)", "cycle lane (protected)",
                              "cycle lane (central)"}
         /\ ~TruthyN(get_precalculated_feature_width(fetched[i])))
        => SameDecimal(CalcWidth(Feature(i), out[i].proc_width, out[i].proc_oneway),
                       get_default_width_for_way_type(Feature(i), p))

\* the OSM feature at position k is in the matched dictionary with a counterpart
Represented(k) ==
    \E id \in DOMAIN matched_features :
        /\ matched_features[id].osm_feature = k
        /\ matched_features[id].processed_feature # 0

\* the processed feature at position j is the counterpart of a matched entry
Counterpart(j) ==
    \E id \in DOMAIN matched_features : matched_features[id].processed_feature = j

\* C29: after match_features every OSM feature is either in the matched
\* dictionary with a counterpart or in unmatched_osm, never both; every
\* processed feature is either a counterpart or in unmatched_processed, never
\* both; and the matched entries with a counterpart and unmatched_osm
\* together are as many as the OSM features, also with repeated ids
C29_MatchPartitions ==
    (stage = "returned" /\ data = None) =>
        /\ \A k \in DOMAIN osm_features :
               Represented(k) <=> k \notin Range(unmatched_osm)
        /\ \A j \in DOMAIN processed_features :
               Counterpart(j) <=> j \notin Range(unmatched_processed)
        /\ Cardinality({id \in DOMAIN matched_features :
                            matched_features[id].processed_feature # 0})
               + Len(unmatched_osm) = Len(osm_features)

\* C30: from_geojson leaves the dictionary of the caller as it was, and
\* returns None for a width or a maxspeed that cannot be parsed rather than
\* raising
C30_CallerDictUnchanged ==
    [][from_geojson => (data' = data /\ stage' = "returned")]_vars

====
